---- MODULE Spec2Model ----
(***************************************************************************)
(* Model of the request pipeline of my-ai-app: the stream relay/parser     *)
(* (stream-utils), the request orchestrator handleAIRequest with the       *)
(* bounded tool loop it configures, and the in-memory cost ledger.         *)
(*                                                                         *)
(* Text is modelled as a sequence of one-character strings.  The bytes of  *)
(* a stream are tokens: "Z" stands for a numbered prefix such as `0:`,     *)
(* "D" for the event-stream marker `data:`, NL for a newline, SP for any   *)
(* other white space, "{" k "}" for the JSON object named by k in the      *)
(* table Payload, "x" for any other character, and C1 C2 for the two bytes *)
(* of one multi-byte character.                                            *)
(***************************************************************************)
EXTENDS Integers, Sequences, FiniteSets, TLC

(***************************************************************************)
(* Bounds of the model.                                                    *)
(***************************************************************************)
MaxLines == 3
MaxRelayLines == 1
MaxChunkLen == 4
MaxEvents == 3
MaxTokens == 2
MaxRecords == 3
MaxLedgerTokens == 1

(***************************************************************************)
(* Optional values: <<>> is null/undefined, <<v>> is the value v.          *)
(***************************************************************************)
Nil == <<>>

Some(v) == <<v>>

\* a ?? b
Coalesce(a, b) == IF a # Nil THEN a ELSE b

\* a ?? 0
OrZero(a) == IF a # Nil THEN a[1] ELSE 0

(***************************************************************************)
(* Strings.                                                                *)
(***************************************************************************)
NL == "\n"

SP == " "

IsWS(c) == c \in {NL, SP}

HasNL(s) == \E i \in 1..Len(s) : s[i] = NL

RECURSIVE TrimStart(_)
TrimStart(s) ==
  IF s # <<>> /\ IsWS(Head(s)) THEN TrimStart(Tail(s)) ELSE s

RECURSIVE TrimEnd(_)
TrimEnd(s) ==
  IF s # <<>> /\ IsWS(s[Len(s)]) THEN TrimEnd(SubSeq(s, 1, Len(s) - 1)) ELSE s

\* String.prototype.trim
Trim(s) == TrimEnd(TrimStart(s))

\* s.split('\n'): always at least one piece
RECURSIVE SplitNL(_)
SplitNL(s) ==
  IF ~HasNL(s) THEN <<s>>
  ELSE LET i == CHOOSE k \in 1..Len(s) :
                   s[k] = NL /\ \A j \in 1..(k - 1) : s[j] # NL
       IN  <<SubSeq(s, 1, i - 1)>> \o SplitNL(SubSeq(s, i + 1, Len(s)))

HasNLNL(s) == \E i \in 1..(Len(s) - 1) : s[i] = NL /\ s[i + 1] = NL

\* s.split('\n\n'): separators are matched left to right, without overlap
RECURSIVE SplitNLNL(_)
SplitNLNL(s) ==
  IF ~HasNLNL(s) THEN <<s>>
  ELSE LET i == CHOOSE k \in 1..(Len(s) - 1) :
                   /\ s[k] = NL /\ s[k + 1] = NL
                   /\ \A j \in 1..(k - 1) : ~(s[j] = NL /\ s[j + 1] = NL)
       IN  <<SubSeq(s, 1, i - 1)>> \o SplitNLNL(SubSeq(s, i + 2, Len(s)))

RECURSIVE Flatten(_)
Flatten(ss) == IF ss = <<>> THEN <<>> ELSE Head(ss) \o Flatten(Tail(ss))

(***************************************************************************)
(* JSON payloads.  A usage object has five optional numeric fields.        *)
(***************************************************************************)
UsageObj(p, c, i, o, t) ==
  [promptTokens |-> p, completionTokens |-> c,
   inputTokens |-> i, outputTokens |-> o, totalTokens |-> t]

\* The object a parsed line yields.  textDelta and text are strings (the
\* empty string and an absent field are both falsy), content is a list of
\* parts, usage and metadataUsage are optional usage objects.
Data(type, textDelta, text, content, usage, metadataUsage) ==
  [type |-> type, textDelta |-> textDelta, text |-> text,
   content |-> content, usage |-> usage, metadataUsage |-> metadataUsage]

Kinds == {"a", "b", "c", "F", "e", "k", "p", "u", "v", "f", "m"}

Payload(k) ==
  CASE k = "a" -> Data("text-delta", <<"a">>, <<>>, <<>>, Nil, Nil)
    [] k = "b" -> Data("text-delta", <<"b">>, <<>>, <<>>, Nil, Nil)
    [] k = "c" -> Data("text-delta", <<"c">>, <<>>, <<>>, Nil, Nil)
    [] k = "F" -> Data("text", <<>>, <<"F">>, <<>>, Nil, Nil)
    [] k = "e" -> Data("text", <<>>, <<>>, <<>>, Nil, Nil)
    [] k = "k" -> Data("text-chunk", <<>>, <<"k">>, <<>>, Nil, Nil)
    [] k = "p" -> Data("message", <<>>, <<>>,
                       <<[type |-> "text", text |-> <<"p">>, textDelta |-> <<>>],
                         [type |-> "tool-call", text |-> <<"q">>, textDelta |-> <<>>]>>,
                       Nil, Nil)
    [] k = "u" -> Data("finish", <<>>, <<>>, <<>>,
                       Some(UsageObj(Some(1), Some(2), Nil, Nil, Some(3))), Nil)
    [] k = "v" -> Data("finish", <<>>, <<>>, <<>>,
                       Some(UsageObj(Nil, Nil, Some(2), Some(1), Nil)), Nil)
    [] k = "f" -> Data("finish", <<>>, <<>>, <<>>, Nil, Nil)
    [] k = "m" -> Data("finish", <<>>, <<>>, <<>>, Nil,
                       Some(UsageObj(Some(1), Some(1), Nil, Nil, Some(2))))

\* JSON.parse: white space around the value is allowed; anything that is
\* not an object of the table throws, which both callers turn into null.
JSONparse(str) ==
  LET t == Trim(str)
  IN  IF Len(t) = 3 /\ t[1] = "{" /\ t[3] = "}" /\ t[2] \in Kinds
      THEN Some(Payload(t[2]))
      ELSE Nil

(***************************************************************************)
(* parseStreamLine.  Neither pattern has the m or s flag: `.` does not     *)
(* match a newline, `$` matches only at the end of the input, and `\s`     *)
(* does match a newline.                                                   *)
(***************************************************************************)
parseStreamLine(line) ==
  IF Trim(line) = <<>> THEN Nil
  ELSE IF Head(line) = "D" /\ ~HasNL(TrimStart(Tail(line)))
       THEN \* /^data:\s*(.*)$/ matched
            LET jsonStr == Trim(TrimStart(Tail(line)))
            IN  IF jsonStr = <<>> THEN Nil ELSE JSONparse(jsonStr)
       ELSE IF Head(line) = "Z" /\ ~HasNL(Tail(line))
            THEN \* /^\d+:(.*)$/ matched
                 JSONparse(Tail(line))
            ELSE Nil

(***************************************************************************)
(* extractFromStreamData.                                                  *)
(***************************************************************************)
\* parts of type 'text' mapped to part.text || part.textDelta || '', joined
RECURSIVE ContentText(_)
ContentText(parts) ==
  IF parts = <<>> THEN <<>>
  ELSE LET part == Head(parts)
       IN  (IF part.type = "text"
            THEN (IF part.text # <<>> THEN part.text ELSE part.textDelta)
            ELSE <<>>) \o ContentText(Tail(parts))

\* usage of a finish event: either naming convention
FinishUsage(u) ==
  LET p == OrZero(Coalesce(u.promptTokens, u.inputTokens))
      c == OrZero(Coalesce(u.completionTokens, u.outputTokens))
  IN  [promptTokens |-> p, completionTokens |-> c,
       totalTokens |-> IF u.totalTokens # Nil THEN u.totalTokens[1] ELSE p + c]

\* usage of message metadata
MetadataUsage(u) ==
  LET p == OrZero(u.promptTokens)
      c == OrZero(u.completionTokens)
  IN  [promptTokens |-> p, completionTokens |-> c,
       totalTokens |-> IF u.totalTokens # Nil THEN u.totalTokens[1] ELSE p + c]

ExtractText(data, currentText) ==
  LET t1 == IF data.type = "text-delta" /\ data.textDelta # <<>>
            THEN currentText \o data.textDelta ELSE currentText
      t2 == IF data.type = "text" /\ data.text # <<>> THEN data.text ELSE t1
      t3 == IF data.type = "text-chunk" /\ data.text # <<>>
            THEN t2 \o data.text ELSE t2
  IN  t3 \o ContentText(data.content)

ExtractUsage(data, currentUsage) ==
  LET u1 == IF data.type = "finish" /\ data.usage # Nil
            THEN Some(FinishUsage(data.usage[1])) ELSE currentUsage
  IN  IF data.metadataUsage # Nil
      THEN Some(MetadataUsage(data.metadataUsage[1])) ELSE u1

extractFromStreamData(data, currentText, currentUsage) ==
  [text |-> ExtractText(data, currentText),
   usage |-> ExtractUsage(data, currentUsage)]

(***************************************************************************)
(* processStreamBuffer and processRemainingBuffer.                         *)
(***************************************************************************)
EmptyResult == [text |-> <<>>, usage |-> Nil]

\* the body of both `for (const line of lines)` loops
RECURSIVE ApplyLines(_, _)
ApplyLines(lines, result) ==
  IF lines = <<>> THEN result
  ELSE LET data == parseStreamLine(Head(lines))
       IN  ApplyLines(Tail(lines),
                      IF data # Nil
                      THEN extractFromStreamData(data[1], result.text, result.usage)
                      ELSE result)

\* for (const event of sseEvents) for (const line of event.split('\n'))
RECURSIVE ApplyEvents(_, _)
ApplyEvents(events, result) ==
  IF events = <<>> THEN result
  ELSE ApplyEvents(Tail(events), ApplyLines(SplitNL(Head(events)), result))

Front(s) == SubSeq(s, 1, Len(s) - 1)

Last(s) == s[Len(s)]

processStreamBuffer(buffer, result) ==
  LET sseEvents == SplitNLNL(buffer)
      lines == SplitNL(buffer)
  IN  IF Len(sseEvents) > 1
      THEN [buffer |-> Last(sseEvents),
            result |-> ApplyEvents(Front(sseEvents), result)]
      ELSE [buffer |-> Last(lines),
            result |-> ApplyLines(Front(lines), result)]

processRemainingBuffer(buffer, result) ==
  IF Trim(buffer) = <<>> THEN result
  ELSE LET data == parseStreamLine(buffer)
       IN  IF data # Nil
           THEN extractFromStreamData(data[1], result.text, result.usage)
           ELSE result

(***************************************************************************)
(* TextDecoder.decode(value, {stream: true}): a lead byte at the end of a  *)
(* chunk is held back until the next chunk; a byte sequence that is not a  *)
(* character decodes to the replacement character "?".                     *)
(***************************************************************************)
RECURSIVE Decode(_, _)
Decode(carry, bytes) ==
  IF bytes = <<>> THEN [text |-> <<>>, carry |-> carry]
  ELSE LET b == Head(bytes)
           rest == Tail(bytes)
       IN  IF carry
           THEN IF b = "C2"
                THEN LET r == Decode(FALSE, rest)
                     IN  [text |-> <<"c">> \o r.text, carry |-> r.carry]
                ELSE LET r == Decode(FALSE, bytes)
                     IN  [text |-> <<"?">> \o r.text, carry |-> r.carry]
           ELSE IF b = "C1" THEN Decode(TRUE, rest)
                ELSE LET r == Decode(FALSE, rest)
                     IN  [text |-> <<(IF b = "C2" THEN "?" ELSE b)>> \o r.text,
                          carry |-> r.carry]

\* One turn of the read loop after the enqueue:
\*   buffer += decoder.decode(value, {stream: true});
\*   processed = processStreamBuffer(buffer, result)
DecodeAndProcess(carry, buffer, result, value) ==
  LET decoded == Decode(carry, value)
      processed == processStreamBuffer(buffer \o decoded.text, result)
  IN  [carry |-> decoded.carry, buffer |-> processed.buffer,
       result |-> processed.result]

(***************************************************************************)
(* The output controller (ReadableStreamDefaultController).  enqueue and   *)
(* close throw when the stream is not readable; error is then a no-op.     *)
(* The queue of forwarded chunks is kept as their concatenation, their     *)
(* number and the last of them.                                            *)
(***************************************************************************)
EmptyQueue == [bytes |-> <<>>, chunks |-> 0, last |-> <<>>]

ControllerEnqueue(st, queue, value) ==
  IF st = "readable"
  THEN [ok |-> TRUE,
        queue |-> [bytes |-> queue.bytes \o value,
                   chunks |-> queue.chunks + 1, last |-> value]]
  ELSE [ok |-> FALSE, queue |-> queue]

ControllerClose(st) ==
  IF st = "readable" THEN [ok |-> TRUE, state |-> "closed"]
  ELSE [ok |-> FALSE, state |-> st]

ControllerError(st) == IF st = "readable" THEN "errored" ELSE st

\* try { controller.close() } catch { ... }: the exception is swallowed
TryClose(st) == [state |-> ControllerClose(st).state, escaped |-> FALSE]

\* try { controller.error(error) } catch { ... }
TryError(st) == [state |-> ControllerError(st), escaped |-> FALSE]

\* a catch that recognises an abort by its name only
IsAbortByName(error) == error = "AbortError"

\* error?.name === 'AbortError' || error?.message?.includes('aborted')
IsAbort(error) == error \in {"AbortError", "aborted"}

\* the errors reader.read() may reject with
ReadErrors == {"AbortError", "aborted", "Error"}

\* enqueueError?.name === 'InvalidStateError' || enqueueError?.code === 'ERR_INVALID_STATE'
IsInvalidState(error) == error \in {"InvalidStateError", "ERR_INVALID_STATE"}

\* what enqueue on a closed controller throws: Node tags its TypeError with
\* the code ERR_INVALID_STATE, other runtimes throw a bare TypeError
EnqueueErrors == {"ERR_INVALID_STATE", "TypeError"}

\* if (result.text) onComplete(result)
CallsOnComplete(result) == result.text # <<>>

(***************************************************************************)
(* The upstream byte streams: up to n lines, each a body followed by a     *)
(* newline, a blank line, or nothing.                                      *)
(***************************************************************************)
LineBodies ==
  { <<"Z", "{", "a", "}">>,        \* 0:{"type":"text-delta","textDelta":"a"}
    <<"D", "{", "b", "}">>,        \* data:{"type":"text-delta","textDelta":"b"}
    <<"Z", "{", "C1", "C2", "}">>, \* a delta whose text is a two-byte character
    <<"Z", "{", "u", "}">>,        \* 0:{"type":"finish","usage":{...}}
    <<"Z", "{", "x", "}">>,        \* a numbered line whose payload is not JSON
    <<"x">> }                      \* a line of neither framing

Terminators == { <<NL>>, <<NL, NL>>, <<>> }

StreamLines == { b \o t : b \in LineBodies, t \in Terminators }

SeqsUpTo(S, n) == UNION { [1..k -> S] : k \in 0..n }

Streams(n) == { Flatten(ls) : ls \in SeqsUpTo(StreamLines, n) }

Min(a, b) == IF a < b THEN a ELSE b

\* the lengths of the next chunk when rem bytes are left: any length up to
\* MaxChunkLen, or all that is left
ChunkLens(rem) == (1..Min(MaxChunkLen, rem)) \cup {rem}

(***************************************************************************)
(* State of one transformStreamToCollectData relay.                        *)
(***************************************************************************)
VARIABLES
  stream,        \* the bytes the upstream will deliver
  pos,           \* how many of them reader.read() has delivered
  upstream,      \* "open", "cancelled" (reader.cancel()) or "errored"
  pc,            \* where start() is
  pending,       \* what the last reader.read() settled with
  carry,         \* the decoder holds a lead byte
  buffer,        \* let buffer
  result,        \* let result
  chunkCount,    \* let chunkCount
  output,        \* the chunks enqueued to the output
  outState,      \* "readable", "closed" or "errored"
  onCompleteCalls, \* the arguments onComplete was called with
  readerCancels, \* calls of reader.cancel()
  cancelledAt,   \* Nil, or pos and the number of forwarded chunks when
                 \* the consumer cancelled
  escaped,       \* an exception left start()
  events,        \* the parsed events handed to extractFromStreamData
  applied,       \* how many of them have been applied
  acc,           \* the {text, usage} accumulated from them
  usageHistory,  \* billing.ts: the in-memory ledger
  freshProcess,  \* nothing has been recorded since the process started
  request,       \* the body of the request being handled
  script,        \* what the model will do in this request
  hpc,           \* where handleAIRequest is
  steps,         \* model invocations of the step loop so far
  lastTurn,      \* what the last model turn returned
  toolExecs,     \* tool executions so far
  toolResults,   \* tool results appended to the message history
  sawResults,    \* tool results in the history of the last invocation
  sdk,           \* what generateText / streamText ended with
  response,      \* the response of the handler, Nil before it returns
  client,        \* the provider client built, with its key
  posted,        \* how the comment POSTs to the pull request ended
  ledgerCall,    \* the last call of trackUsage and what it returned
  ledgerRead,    \* what the last read of the ledger returned
  invoked,       \* a call of a tool or of a helper function: its arguments
                 \* and what its environment will do
  settled        \* Nil, or how that call ended

relayVars == <<stream, pos, upstream, pc, pending, carry, buffer, result,
               chunkCount, output, outState, onCompleteCalls,
               readerCancels, cancelledAt, escaped>>

eventVars == <<events, applied, acc>>

handlerVars == <<usageHistory, freshProcess, request, script, hpc, steps, lastTurn,
                 toolExecs, toolResults, sawResults, sdk, response, client,
                 posted, ledgerCall, ledgerRead>>

callVars == <<invoked, settled>>

NoCall == [op |-> "none"]

CallIdle == invoked = NoCall /\ settled = Nil

NoPending == [kind |-> "none", value |-> <<>>]

RelayStart(streams, at) ==
  /\ stream \in streams
  /\ pos = 0
  /\ upstream = "open"
  /\ pc = at
  /\ pending = NoPending
  /\ carry = FALSE
  /\ buffer = <<>>
  /\ result = EmptyResult
  /\ chunkCount = 0
  /\ output = EmptyQueue
  /\ outState = "readable"
  /\ onCompleteCalls = <<>>
  /\ readerCancels = 0
  /\ cancelledAt = Nil
  /\ escaped = FALSE

\* reader.read() resolves with the next chunk, of any length
ReadChunk ==
  /\ pc = "awaitRead" /\ upstream = "open" /\ pos < Len(stream)
  /\ \E n \in ChunkLens(Len(stream) - pos) :
       /\ pending' = [kind |-> "chunk", value |-> SubSeq(stream, pos + 1, pos + n)]
       /\ pos' = pos + n
  /\ pc' = "resume"
  /\ UNCHANGED <<stream, upstream, carry, buffer, result, chunkCount,
                 output, outState, onCompleteCalls, readerCancels, cancelledAt,
                 escaped>>
  /\ UNCHANGED <<eventVars, handlerVars, callVars>>

\* reader.read() resolves with done: the upstream ended, or was cancelled
ReadDone ==
  /\ pc = "awaitRead"
  /\ \/ upstream = "open" /\ pos = Len(stream)
     \/ upstream = "cancelled"
  /\ pending' = [kind |-> "done", value |-> <<>>]
  /\ pc' = "resume"
  /\ UNCHANGED <<stream, pos, upstream, carry, buffer, result, chunkCount,
                 output, outState, onCompleteCalls, readerCancels,
                 cancelledAt, escaped>>
  /\ UNCHANGED <<eventVars, handlerVars, callVars>>

\* reader.read() rejects
ReadError ==
  /\ pc = "awaitRead" /\ upstream = "open"
  /\ \E e \in ReadErrors : pending' = [kind |-> "error", value |-> <<e>>]
  /\ upstream' = "errored"
  /\ pc' = "resume"
  /\ UNCHANGED <<stream, pos, carry, buffer, result, chunkCount,
                 output, outState, onCompleteCalls, readerCancels, cancelledAt,
                 escaped>>
  /\ UNCHANGED <<eventVars, handlerVars, callVars>>

\* The consumer cancels the output stream: the stream is closed and the
\* cancel() callback calls reader.cancel().  start() is suspended at its
\* await, or its continuation is queued.
Cancel ==
  /\ outState = "readable" /\ pc \in {"awaitRead", "resume"}
  /\ outState' = "closed"
  /\ cancelledAt' = Some([pos |-> pos, forwarded |-> output.chunks])
  /\ readerCancels' = readerCancels + 1
  /\ upstream' = IF upstream = "open" THEN "cancelled" ELSE upstream
  /\ UNCHANGED <<stream, pos, pc, pending, carry, buffer, result, chunkCount,
                 output, onCompleteCalls, escaped>>
  /\ UNCHANGED <<eventVars, handlerVars, callVars>>

\* a read loop that forwards a chunk only when parsing it changes the result
ForwardParsedOnly ==
  /\ pc = "resume" /\ pending.kind = "chunk"
  /\ chunkCount' = chunkCount + 1
  /\ LET enq == ControllerEnqueue(outState, output, pending.value)
         parsed == DecodeAndProcess(carry, buffer, result, pending.value)
     IN  /\ output' = IF parsed.result # result THEN enq.queue ELSE output
         /\ IF enq.ok
            THEN pc' = "parse" /\ pending' = pending
            ELSE pc' = "flush" /\ pending' = NoPending
  /\ UNCHANGED <<stream, pos, upstream, carry, buffer, result, outState,
                 onCompleteCalls, readerCancels, cancelledAt, escaped>>
  /\ UNCHANGED <<eventVars, handlerVars, callVars>>

\* chunkCount++; try { controller.enqueue(value) } catch { break or rethrow }
Forward ==
  /\ pc = "resume" /\ pending.kind = "chunk"
  /\ chunkCount' = chunkCount + 1
  /\ LET enq == ControllerEnqueue(outState, output, pending.value)
     IN  /\ output' = enq.queue
         /\ IF enq.ok
            THEN pc' = "parse" /\ pending' = pending
            ELSE \E e \in EnqueueErrors :
                   IF IsInvalidState(e)
                   THEN pc' = "flush" /\ pending' = NoPending
                   ELSE pc' = "catch" /\ pending' = [kind |-> "error", value |-> <<e>>]
  /\ UNCHANGED <<stream, pos, upstream, carry, buffer, result, outState,
                 onCompleteCalls, readerCancels, cancelledAt, escaped>>
  /\ UNCHANGED <<eventVars, handlerVars, callVars>>

\* buffer += decoder.decode(value, {stream: true}); processStreamBuffer
Parse ==
  /\ pc = "parse"
  /\ LET r == DecodeAndProcess(carry, buffer, result, pending.value)
     IN  carry' = r.carry /\ buffer' = r.buffer /\ result' = r.result
  /\ pending' = NoPending
  /\ pc' = "awaitRead"
  /\ UNCHANGED <<stream, pos, upstream, chunkCount, output, outState,
                 onCompleteCalls, readerCancels, cancelledAt, escaped>>
  /\ UNCHANGED <<eventVars, handlerVars, callVars>>

\* if (done) break
Done ==
  /\ pc = "resume" /\ pending.kind = "done"
  /\ pending' = NoPending
  /\ pc' = "flush"
  /\ UNCHANGED <<stream, pos, upstream, carry, buffer, result, chunkCount,
                 output, outState, onCompleteCalls, readerCancels,
                 cancelledAt, escaped>>
  /\ UNCHANGED <<eventVars, handlerVars, callVars>>

\* result = processRemainingBuffer(buffer, result); if (result.text) onComplete(result)
Flush ==
  /\ pc = "flush"
  /\ LET final == processRemainingBuffer(buffer, result)
     IN  /\ result' = final
         /\ onCompleteCalls' = IF CallsOnComplete(final)
                               THEN Append(onCompleteCalls, final)
                               ELSE onCompleteCalls
  /\ pc' = "close"
  /\ UNCHANGED <<stream, pos, upstream, pending, carry, buffer, chunkCount,
                 output, outState, readerCancels, cancelledAt, escaped>>
  /\ UNCHANGED <<eventVars, handlerVars, callVars>>

\* try { controller.close() } catch { ... }
Close ==
  /\ pc = "close"
  /\ LET c == TryClose(outState)
     IN  outState' = c.state /\ escaped' = (escaped \/ c.escaped)
  /\ pc' = "returned"
  /\ UNCHANGED <<stream, pos, upstream, pending, carry, buffer, result,
                 chunkCount, output, onCompleteCalls, readerCancels,
                 cancelledAt>>
  /\ UNCHANGED <<eventVars, handlerVars, callVars>>

\* the rejection of reader.read() is thrown at the await
Throw ==
  /\ pc = "resume" /\ pending.kind = "error"
  /\ pc' = "catch"
  /\ UNCHANGED <<stream, pos, upstream, pending, carry, buffer, result,
                 chunkCount, output, outState, onCompleteCalls,
                 readerCancels, cancelledAt, escaped>>
  /\ UNCHANGED <<eventVars, handlerVars, callVars>>

\* catch (error): an abort closes the output, anything else errors it
Catch ==
  /\ pc = "catch"
  /\ LET c == IF IsAbort(pending.value[1]) THEN TryClose(outState)
              ELSE TryError(outState)
     IN  outState' = c.state /\ escaped' = (escaped \/ c.escaped)
  /\ pc' = "returned"
  /\ UNCHANGED <<stream, pos, upstream, pending, carry, buffer, result,
                 chunkCount, output, onCompleteCalls, readerCancels,
                 cancelledAt>>
  /\ UNCHANGED <<eventVars, handlerVars, callVars>>

(***************************************************************************)
(* The parser alone, fed a stream in chunks of any lengths and then        *)
(* flushed: the read loop of a relay that is neither cancelled nor fails.  *)
(***************************************************************************)
FeedChunk ==
  /\ pc = "feed" /\ pos < Len(stream)
  /\ \E n \in ChunkLens(Len(stream) - pos) :
       LET r == DecodeAndProcess(carry, buffer, result,
                                 SubSeq(stream, pos + 1, pos + n))
       IN  /\ carry' = r.carry /\ buffer' = r.buffer /\ result' = r.result
           /\ pos' = pos + n
  /\ UNCHANGED <<stream, upstream, pc, pending, chunkCount, output, outState,
                 onCompleteCalls, readerCancels, cancelledAt, escaped>>
  /\ UNCHANGED <<eventVars, handlerVars, callVars>>

FeedEnd ==
  /\ pc = "feed" /\ pos = Len(stream)
  /\ result' = processRemainingBuffer(buffer, result)
  /\ pc' = "fed"
  /\ UNCHANGED <<stream, pos, upstream, pending, carry, buffer, chunkCount,
                 output, outState, onCompleteCalls, readerCancels, cancelledAt,
                 escaped>>
  /\ UNCHANGED <<eventVars, handlerVars, callVars>>

\* the whole stream in a single chunk
OneChunk(bytes) ==
  IF bytes = <<>> THEN processRemainingBuffer(<<>>, EmptyResult)
  ELSE LET r == DecodeAndProcess(FALSE, <<>>, EmptyResult, bytes)
       IN  processRemainingBuffer(r.buffer, r.result)

(***************************************************************************)
(* extractFromStreamData alone, applied to a sequence of parsed events,    *)
(* as processStreamBuffer applies it to the lines of a stream.             *)
(***************************************************************************)
\* the events that carry text
TextKinds == {"a", "b", "F", "e", "k", "p", "f"}

\* the shapes of a usage object: each count absent or 0..MaxTokens under
\* one of the two namings, the total absent or given
TokenCounts == {Nil} \cup {Some(n) : n \in 0..MaxTokens}

UsageShapes ==
  {UsageObj(p, c, Nil, Nil, t) : p \in TokenCounts, c \in TokenCounts,
                                 t \in {Nil, Some(2 * MaxTokens + 1)}}
  \cup
  {UsageObj(Nil, Nil, i, o, t) : i \in TokenCounts, o \in TokenCounts,
                                 t \in {Nil, Some(2 * MaxTokens + 1)}}

\* a finish event with usage, a message whose metadata carries usage, and
\* a finish event without usage
UsageEvents ==
  {Data("finish", <<>>, <<>>, <<>>, Some(u), Nil) : u \in UsageShapes}
  \cup {Data("message", <<>>, <<>>, <<>>, Nil, Some(u)) : u \in UsageShapes}
  \cup {Payload("f")}

EventsIdle == events = <<>> /\ applied = 0 /\ acc = EmptyResult

EventsStart(seqs) == events \in seqs /\ applied = 0 /\ acc = EmptyResult

\* const extracted = extractFromStreamData(data, result.text, result.usage)
ApplyEvent ==
  /\ applied < Len(events)
  /\ applied' = applied + 1
  /\ acc' = extractFromStreamData(events[applied + 1], acc.text, acc.usage)
  /\ UNCHANGED events
  /\ UNCHANGED <<relayVars, handlerVars, callVars>>

(***************************************************************************)
(* billing.ts: the in-memory ledger.  Costs are integers, in units of      *)
(* 10^-8 dollars per token.                                                *)
(***************************************************************************)
modelCosts ==
  [m \in {"gpt-4o", "gemini-1.5-pro", "claude-sonnet-4-20250514",
          "deepseek-chat", "qwen-plus"} |->
     CASE m = "gpt-4o" -> [input |-> 500, output |-> 1500]
       [] m = "gemini-1.5-pro" -> [input |-> 125, output |-> 500]
       [] m = "claude-sonnet-4-20250514" -> [input |-> 300, output |-> 1500]
       [] m = "deepseek-chat" -> [input |-> 14, output |-> 28]
       [] m = "qwen-plus" -> [input |-> 80, output |-> 200]]

\* property names every object literal inherits from Object.prototype: a
\* lookup by such a name yields a function, which is truthy
ObjectPrototypeKeys == {"constructor"}

\* the number NaN, and arithmetic and comparison in its presence
NaN == -1

Plus(a, b) == IF a = NaN \/ b = NaN THEN NaN ELSE a + b

AtMostZero(a) == a # NaN /\ a <= 0

\* usageHistory.reduce((sum, entry) => sum + entry.cost, 0)
RECURSIVE getTotalCost(_)
getTotalCost(history) ==
  IF history = <<>> THEN 0
  ELSE Plus(getTotalCost(Front(history)), Last(history).cost)

\* "Legacy function - now returns total cost"
getCredits(history) == getTotalCost(history)

\* the record is put in front: usageHistory.unshift
trackUsageNewestFirst(history, model, promptTokens, completionTokens) ==
  LET billed == [cost |-> promptTokens * modelCosts["gpt-4o"].input
                            + completionTokens * modelCosts["gpt-4o"].output]
      after == <<[model |-> model, promptTokens |-> promptTokens,
                  completionTokens |-> completionTokens,
                  totalTokens |-> promptTokens + completionTokens,
                  cost |-> billed.cost]>> \o history
  IN  [history |-> after,
       billing |-> [cost |-> billed.cost, totalCost |-> getTotalCost(after)]]

\* the ledger after the push, and the {cost, totalCost} returned
trackUsage(history, model, promptTokens, completionTokens) ==
  LET costs == IF model \in DOMAIN modelCosts THEN modelCosts[model]
               ELSE modelCosts["gpt-4o"]
      \* modelCosts[model] || modelCosts["gpt-4o"]: an inherited property
      \* is truthy and has no rates, and a number times undefined is NaN
      cost == IF model \in ObjectPrototypeKeys THEN NaN
              ELSE promptTokens * costs.input
                     + completionTokens * costs.output
      after == Append(history,
                      [model |-> model, promptTokens |-> promptTokens,
                       completionTokens |-> completionTokens,
                       totalTokens |-> promptTokens + completionTokens,
                       cost |-> cost])
  IN  [history |-> after,
       billing |-> [cost |-> cost, totalCost |-> getTotalCost(after)]]

getUsageHistory(history) == history

\* the sum of a field over the records of model m, or their number
RECURSIVE SumOver(_, _, _)
SumOver(history, m, field) ==
  IF history = <<>> THEN 0
  ELSE Plus(SumOver(Front(history), m, field),
            IF Last(history).model # m THEN 0
            ELSE IF field = "calls" THEN 1 ELSE Last(history)[field])

\* the breakdown by model: a model named like an inherited property finds
\* breakdown[entry.model] truthy and gets no entry of its own
getCostByModel(history) ==
  [m \in {history[i].model : i \in 1..Len(history)} \ ObjectPrototypeKeys |->
     [cost |-> SumOver(history, m, "cost"),
      tokens |-> SumOver(history, m, "totalTokens"),
      calls |-> SumOver(history, m, "calls")]]

\* the cost is computed and returned, nothing is pushed
deductCreditsUnrecorded(history, model, promptTokens, completionTokens) ==
  [history |-> history,
   billing |-> trackUsage(history, model, promptTokens, completionTokens).billing]

deductCredits(history, model, promptTokens, completionTokens) ==
  trackUsage(history, model, promptTokens, completionTokens)

(***************************************************************************)
(* ai-providers.ts and the two routes.                                     *)
(***************************************************************************)
providerConfigs ==
  [p \in {"openai", "gemini", "anthropic", "deepseek", "qwen",
          "vercel-ai-gateway"} |->
     [defaultModel |->
        CASE p = "openai" -> "gpt-4o"
          [] p = "gemini" -> "gemini-1.5-pro"
          [] p = "anthropic" -> "claude-sonnet-4-20250514"
          [] p = "deepseek" -> "deepseek-chat"
          [] p = "qwen" -> "qwen-plus"
          [] p = "vercel-ai-gateway" -> "openai/gpt-4o"]]

codeTools == {"readFile", "readPullRequest"}

CodeReviewSteps == 20

ChatSteps == 10

\* chat passes the ceiling of code review too
RouteOptionsAlike(req) ==
  IF req.route = "codereview"
  THEN [tools |-> Some(codeTools), stopWhen |-> Some(CodeReviewSteps)]
  ELSE [tools |-> IF req.enableTools THEN Some(codeTools) ELSE Nil,
        stopWhen |-> IF req.enableTools THEN Some(CodeReviewSteps) ELSE Nil]

\* the tools and stopWhen options a route passes to handleAIRequest
RouteOptions(req) ==
  IF req.route = "codereview"
  THEN [tools |-> Some(codeTools), stopWhen |-> Some(CodeReviewSteps)]
  ELSE [tools |-> IF req.enableTools THEN Some(codeTools) ELSE Nil,
        stopWhen |-> IF req.enableTools THEN Some(ChatSteps) ELSE Nil]

\* the environment variable of each provider
envKeyMapping ==
  [p \in DOMAIN providerConfigs |->
     CASE p = "openai" -> "OPENAI_API_KEY"
       [] p = "gemini" -> "GOOGLE_GENERATIVE_AI_API_KEY"
       [] p = "anthropic" -> "ANTHROPIC_API_KEY"
       [] p = "deepseek" -> "DEEPSEEK_API_KEY"
       [] p = "qwen" -> "QWEN_API_KEY"
       [] p = "vercel-ai-gateway" -> "VERCEL_AI_GATEWAY_API_KEY"]

\* the variables the environment may set; the value of v is <<"env", v>>
EnvVars == {"OPENAI_API_KEY", "DEEPSEEK_API_KEY"}

\* the first variable that is set, whichever provider it belongs to
getAnyEnvApiKey(env, providerId) ==
  IF env = {} THEN Nil
  ELSE LET own == IF providerId \in DOMAIN envKeyMapping
                  THEN {envKeyMapping[providerId]} \cap env ELSE {}
           v == IF own # {} THEN CHOOSE w \in own : TRUE
                ELSE CHOOSE w \in env : TRUE
       IN  Some(<<"env", v>>)

\* process.env[envKeyMapping[providerId]]
getEnvApiKey(env, providerId) ==
  IF providerId \in DOMAIN envKeyMapping /\ envKeyMapping[providerId] \in env
  THEN Some(<<"env", envKeyMapping[providerId]>>)
  ELSE Nil

\* apiKey ?? getEnvApiKey(providerId): the empty string counts as a key
resolvedApiKeyIfAny(req) ==
  IF req.apiKey # Nil THEN req.apiKey
  ELSE getEnvApiKey(req.env, req.provider)

\* apiKey || getEnvApiKey(providerId): the empty string is falsy
resolvedApiKey(req) ==
  IF req.apiKey # Nil /\ req.apiKey[1] # <<>> THEN req.apiKey
  ELSE getEnvApiKey(req.env, req.provider)

HasResolvedApiKey(req) == resolvedApiKey(req) # Nil

\* providerConfigs[providerId] is truthy
HasProviderConfig(providerId) ==
  providerId \in DOMAIN providerConfigs \/ providerId \in ObjectPrototypeKeys

\* requestedModel || config.defaultModel
ModelName(req) ==
  IF req.model # Nil THEN req.model[1]
  ELSE providerConfigs[req.provider].defaultModel

(***************************************************************************)
(* handleAIRequest, called by a route.  The model is an input: the script  *)
(* says how many turns of tool calls it makes, of which tool, and how it   *)
(* ends.                                                                   *)
(***************************************************************************)
RequestProviders == {"openai", "deepseek", "bogus"}

\* the errors a model call ends with
ErrorEnds ==
  {"AI_APICallError", "citation", "Error", "APICallWithText", "BodyText",
   "NoText", "NoTextButBody"}

\* the name of the error and where its payload carries a message: in
\* error.value with text, in error.responseBody with text, in error.value
\* without a text part, in error.value without a text part and in
\* error.responseBody with text, or nowhere
ErrorShape(e) ==
  CASE e = "AI_APICallError" -> [name |-> "AI_APICallError", payload |-> "none"]
    [] e = "citation" -> [name |-> "AI_TypeValidationError", payload |-> "value"]
    [] e = "Error" -> [name |-> "Error", payload |-> "none"]
    [] e = "APICallWithText" -> [name |-> "AI_APICallError", payload |-> "value"]
    [] e = "BodyText" -> [name |-> "Error", payload |-> "responseBody"]
    [] e = "NoText" -> [name |-> "Error", payload |-> "valueWithoutText"]
    [] e = "NoTextButBody" ->
         [name |-> "Error", payload |-> "valueWithoutTextAndBody"]

ScriptEnds == {"text", "empty"} \cup ErrorEnds

\* calls, the turns of tool calls before the end; says, which of these
\* turns carry text beside their tool calls
Scripts ==
  [calls : 0..(CodeReviewSteps + 1), tool : codeTools,
   final : {"text", "empty"}, says : {"nothing"}]
  \cup [calls : 0..1, tool : codeTools, final : ErrorEnds, says : {"nothing"}]
  \cup [calls : {1, ChatSteps, CodeReviewSteps}, tool : {"readFile"},
        final : {"text"}, says : {"first", "every"}]

\* the text of turn n of tool calls
TurnText(s, n) ==
  IF s.says = "every" \/ (s.says = "first" /\ n = 1) THEN <<"S">> ELSE <<>>

\* the body of a request and what it meets: messagesOk, the messages are a
\* list; convertible, their conversion does not throw; env, the variables
\* set in the environment; githubPR, a GitHub token and a PR reference
Requests ==
  [route : {"codereview", "chat"},
   provider : RequestProviders \cup ObjectPrototypeKeys,
   apiKey : {Nil, Some(<<>>), Some(<<"request">>)}, env : SUBSET EnvVars,
   model : {Nil, Some("qwen-plus")}, stream : BOOLEAN,
   enableTools : BOOLEAN, messagesOk : BOOLEAN, convertible : BOOLEAN,
   githubPR : BOOLEAN]

\* requests with convertible messages, for openai or an unknown provider,
\* the key in the request or nowhere, and a GitHub token only where it is
\* looked at
HandlerRequests ==
  {r \in Requests :
     /\ r.provider \in {"openai", "bogus"} /\ r.convertible
     /\ r.apiKey # Some(<<>>) /\ r.env = {}
     /\ r.githubPR => r.route = "codereview"}

\* a record of an earlier request, one token each way on gpt-4o
EarlierUsage == trackUsage(<<>>, "gpt-4o", 1, 1).history

NoTurn == [kind |-> "none", tool |-> ""]

NoResult == [kind |-> "none", text |-> <<>>, lastStepText |-> <<>>,
             finishReason |-> "", usage |-> Nil, error |-> ""]

Response(status, kind, error, text, usage, billing) ==
  Some([status |-> status, kind |-> kind, error |-> error, text |-> text,
        usage |-> usage, billing |-> billing])

ErrorResponse(status, error) == Response(status, "json", error, <<>>, Nil, Nil)

HandlerIdle ==
  /\ usageHistory = <<>> /\ freshProcess = TRUE
  /\ request = Nil /\ script = Nil /\ hpc = "idle" /\ client = Nil
  /\ steps = 0 /\ lastTurn = NoTurn /\ toolExecs = 0 /\ toolResults = 0
  /\ sawResults = 0 /\ sdk = NoResult /\ response = Nil /\ posted = <<>>
  /\ ledgerCall = Nil /\ ledgerRead = Nil

HandlerStartWith(requests, scripts) ==
  /\ freshProcess \in BOOLEAN
  /\ usageHistory = IF freshProcess THEN <<>> ELSE EarlierUsage
  /\ request \in {Some(r) : r \in requests}
  /\ script \in {Some(s) : s \in scripts}
  /\ RouteOptions(request[1]).tools = Nil => script[1].calls = 0
  /\ hpc = "received" /\ client = Nil
  /\ steps = 0 /\ lastTurn = NoTurn /\ toolExecs = 0 /\ toolResults = 0
  /\ sawResults = 0 /\ sdk = NoResult /\ response = Nil /\ posted = <<>>
  /\ ledgerCall = Nil /\ ledgerRead = Nil

HandlerStart == HandlerStartWith(HandlerRequests, Scripts)

\* the buffered code review with a GitHub token and a PR reference awaits
\* handleAIRequest inside its try block; every other call is the operand
\* of a return, and a rejection of that promise passes the catch block by
RouteAwaits(req) == req.route = "codereview" /\ ~req.stream /\ req.githubPR

\* what GitHub does with the POST of the comment: fetch rejects, or a
\* response with its status and text
GitHubAnswers ==
  {[kind |-> "rejects", status |-> "0", text |-> <<"fetch failed">>],
   [kind |-> "responds", status |-> "201", text |-> <<>>],
   [kind |-> "responds", status |-> "401", text |-> <<"Bad credentials">>],
   [kind |-> "responds", status |-> "404", text |-> <<"Not Found">>]}

\* a POST that fails is sent a second time
postPRCommentRetrying(answer) ==
  IF answer.kind = "responds" /\ answer.status = "201"
  THEN [kind |-> "ok", posts |-> 1, error |-> <<>>]
  ELSE [kind |-> "status", posts |-> 2,
        error |-> <<"Failed to post PR comment:", answer.status>> \o answer.text]

\* postPRComment: one fetch with method POST; the promise is fulfilled for
\* a success status, rejected with an Error that carries status and text
\* for another status, and rejected with what fetch threw
postPRComment(answer) ==
  IF answer.kind = "rejects"
  THEN [kind |-> "transport", posts |-> 1, error |-> answer.text]
  ELSE IF answer.status # "201"
  THEN [kind |-> "status", posts |-> 1,
        error |-> <<"Failed to post PR comment:", answer.status>> \o answer.text]
  ELSE [kind |-> "ok", posts |-> 1, error |-> <<>>]

\* how the calls of postPRComment can end
CommentOutcomes == {postPRComment(answer) : answer \in GitHubAnswers}

\* a failed comment POST fails the review with status 500
ReturnsOrFailsWithComment(resp) ==
  /\ hpc' = "responded"
  /\ IF RouteAwaits(request[1]) /\ resp[1].status = 200
     THEN IF resp[1].text = <<>>
          THEN /\ response' = ErrorResponse(500, <<"No review text generated">>)
               /\ posted' = posted
          ELSE \E outcome \in CommentOutcomes :
                 /\ posted' = Append(posted, outcome)
                 /\ response' = IF outcome.kind = "ok" THEN resp
                                ELSE ErrorResponse(500, <<outcome.kind>>)
     ELSE response' = resp /\ posted' = posted

\* handleAIRequest returns resp: the route hands it on, and the awaiting
\* route answers 500 for a review without text and else posts the comment,
\* whose failure is logged and ignored
Returns(resp) ==
  /\ hpc' = "responded"
  /\ IF RouteAwaits(request[1]) /\ resp[1].status = 200
     THEN IF resp[1].text = <<>>
          THEN /\ response' = ErrorResponse(500, <<"No review text generated">>)
               /\ posted' = posted
          ELSE /\ response' = resp
               /\ \E outcome \in CommentOutcomes :
                    posted' = Append(posted, outcome)
     ELSE response' = resp /\ posted' = posted

\* handleAIRequest throws: the awaiting route answers 500, from the others
\* the exception escapes
Throws(error) ==
  /\ posted' = posted
  /\ IF RouteAwaits(request[1])
     THEN response' = ErrorResponse(500, <<error>>) /\ hpc' = "responded"
     ELSE response' = response /\ hpc' = "threw"

\* handleAIRequest up to the call of streamText or generateText; in
\* streaming mode the response is returned at once
HandleRequest ==
  /\ hpc = "received"
  /\ LET req == request[1]
     IN  IF AtMostZero(getCredits(usageHistory))
         THEN Returns(ErrorResponse(402, <<"Insufficient credits">>))
              /\ client' = client
         ELSE IF ~req.messagesOk
         THEN Returns(ErrorResponse(400, <<"Messages are required">>))
              /\ client' = client
         ELSE IF ~req.convertible
         THEN Throws("TypeError") /\ client' = client
         ELSE IF ~HasProviderConfig(req.provider)
         THEN Returns(ErrorResponse(400, <<"Invalid provider">>))
              /\ client' = client
         ELSE IF ~HasResolvedApiKey(req)
         THEN Returns(ErrorResponse(400, <<"No API key provided for",
                                           req.provider>>))
              /\ client' = client
         ELSE IF req.provider \notin DOMAIN providerConfigs
         THEN \* config.createProvider is not a function
              Throws("TypeError") /\ client' = client
         ELSE /\ client' = Some([provider |-> req.provider,
                                 apiKey |-> resolvedApiKey(req)[1]])
              /\ response' = IF req.stream
                             THEN Response(200, "stream", <<>>, <<>>, Nil, Nil)
                             ELSE Nil
              /\ posted' = posted
              /\ hpc' = "invoking"
  /\ UNCHANGED <<usageHistory, freshProcess, request, script, steps,
                 lastTurn, toolExecs, toolResults, sawResults, sdk>>
  /\ UNCHANGED <<ledgerCall, ledgerRead>>
  /\ UNCHANGED <<relayVars, eventVars, callVars>>

(***************************************************************************)
(* The step loop of generateText / streamText: a model turn, the tools it  *)
(* asks for, and again, until a turn without tool calls or the ceiling.    *)
(***************************************************************************)
\* stopWhen is passed through when given: ...(stopWhen && { stopWhen })
StepCeiling(opts) == IF opts.stopWhen # Nil THEN opts.stopWhen[1] ELSE 1

ResultUsages == [inputTokens : TokenCounts, outputTokens : TokenCounts]

\* the loop ends with a result
LoopEnds(text, finishReason) ==
  \E u \in ResultUsages :
    /\ sdk' = [kind |-> "result", text |-> text, lastStepText |-> text,
               finishReason |-> finishReason, usage |-> Some(u), error |-> ""]
    /\ hpc' = "finished"

\* one invocation of the model with the message history so far
ModelTurn ==
  /\ hpc = "invoking"
  /\ steps' = steps + 1
  /\ sawResults' = toolResults
  /\ LET s == script[1]
     IN  IF steps < s.calls
         THEN /\ lastTurn' = [kind |-> "tool-calls", tool |-> s.tool]
              /\ hpc' = "tools"
              /\ sdk' = sdk
         ELSE IF s.final = "text"
         THEN lastTurn' = [kind |-> "text", tool |-> ""] /\ LoopEnds(<<"T">>, "stop")
         ELSE IF s.final = "empty"
         THEN lastTurn' = [kind |-> "text", tool |-> ""] /\ LoopEnds(<<>>, "stop")
         ELSE /\ lastTurn' = [kind |-> "error", tool |-> ""]
              /\ sdk' = [NoResult EXCEPT !.kind = "error", !.error = s.final]
              /\ hpc' = "failed"
  /\ UNCHANGED <<usageHistory, freshProcess, request, script, toolExecs,
                 toolResults, response>>
  /\ UNCHANGED <<client, posted>>
  /\ UNCHANGED <<ledgerCall, ledgerRead>>
  /\ UNCHANGED <<relayVars, eventVars, callVars>>

\* the tool calls of the turn are executed and their results appended; the
\* loop goes on unless the step count has reached the ceiling
ExecuteTools ==
  /\ hpc = "tools"
  /\ toolExecs' = toolExecs + 1
  /\ toolResults' = toolResults + 1
  /\ IF steps < StepCeiling(RouteOptions(request[1]))
     THEN hpc' = "invoking" /\ sdk' = sdk
     ELSE \* result.text is the text of the last step
          LoopEnds(TurnText(script[1], steps), "tool-calls")
  /\ UNCHANGED <<usageHistory, freshProcess, request, script, steps,
                 lastTurn, sawResults, response>>
  /\ UNCHANGED <<client, posted>>
  /\ UNCHANGED <<ledgerCall, ledgerRead>>
  /\ UNCHANGED <<relayVars, eventVars, callVars>>

(***************************************************************************)
(* handleAIRequest after the loop.                                         *)
(***************************************************************************)
ToolCallsOnlyText == <<"M">>

\* result.text, else the text parts of the last step
FinalTextOfResult(res) ==
  IF res.text = <<>> THEN res.lastStepText ELSE res.text

\* result.text, else the text parts of the last step, else the notice
FinalText(res) ==
  LET t1 == res.text
      t2 == IF t1 = <<>> THEN res.lastStepText ELSE t1
  IN  IF t2 = <<>> /\ res.finishReason = "tool-calls"
      THEN ToolCallsOnlyText ELSE t2

\* buffered mode: the text, the usage and the billing of the result
BufferedReturn ==
  /\ hpc = "finished" /\ ~request[1].stream
  /\ LET promptTokens == OrZero(sdk.usage[1].inputTokens)
         completionTokens == OrZero(sdk.usage[1].outputTokens)
         billed == deductCredits(usageHistory, ModelName(request[1]),
                                 promptTokens, completionTokens)
     IN  /\ usageHistory' = billed.history
         /\ Returns(Response(200, "json", <<>>, FinalText(sdk),
                             Some([promptTokens |-> promptTokens,
                                   completionTokens |-> completionTokens,
                                   totalTokens |->
                                     promptTokens + completionTokens]),
                             Some(billed.billing)))
  /\ UNCHANGED <<freshProcess, request, script, client, steps, lastTurn,
                 toolExecs, toolResults, sawResults, sdk>>
  /\ UNCHANGED <<ledgerCall, ledgerRead>>
  /\ UNCHANGED <<relayVars, eventVars, callVars>>

\* the error is an API call error: answered 502 before anything else
IsAPICallError(error) == ErrorShape(error).name = "AI_APICallError"

\* the text parts of error.value.message.content, or of the message parsed
\* from error.responseBody when error.value has no message content: a
\* content without text parts keeps error.responseBody from being read
SalvagedText(error) ==
  IF ErrorShape(error).payload \in {"value", "responseBody"}
  THEN <<"T">> ELSE <<>>

\* buffered mode, catch: 502 for an API call error; the text found in the
\* payload of another error is billed and returned; anything else is
\* thrown again
BufferedCatch ==
  /\ hpc = "failed" /\ ~request[1].stream
  /\ IF IsAPICallError(sdk.error)
     THEN /\ Returns(ErrorResponse(502, <<"AI provider API error">>))
          /\ usageHistory' = usageHistory
     ELSE IF SalvagedText(sdk.error) # <<>>
     THEN \E u \in ResultUsages :
            LET promptTokens == OrZero(u.inputTokens)
                completionTokens == OrZero(u.outputTokens)
                billed == deductCredits(usageHistory, ModelName(request[1]),
                                        promptTokens, completionTokens)
            IN  /\ usageHistory' = billed.history
                /\ Returns(Response(200, "json", <<>>,
                                    SalvagedText(sdk.error),
                                    Some([promptTokens |-> promptTokens,
                                          completionTokens |->
                                            completionTokens,
                                          totalTokens |->
                                            promptTokens + completionTokens]),
                                    Some(billed.billing)))
     ELSE Throws(sdk.error) /\ usageHistory' = usageHistory
  /\ UNCHANGED <<freshProcess, request, script, client, steps, lastTurn,
                 toolExecs, toolResults, sawResults, sdk>>
  /\ UNCHANGED <<ledgerCall, ledgerRead>>
  /\ UNCHANGED <<relayVars, eventVars, callVars>>

\* streaming mode, onFinish: the usage of the stream is billed
StreamFinish ==
  /\ hpc = "finished" /\ request[1].stream
  /\ usageHistory' =
       deductCredits(usageHistory, ModelName(request[1]),
                     OrZero(sdk.usage[1].inputTokens),
                     OrZero(sdk.usage[1].outputTokens)).history
  /\ hpc' = "closed"
  /\ UNCHANGED <<freshProcess, request, script, steps, lastTurn, toolExecs,
                 toolResults, sawResults, sdk, response>>
  /\ UNCHANGED <<client, posted>>
  /\ UNCHANGED <<ledgerCall, ledgerRead>>
  /\ UNCHANGED <<relayVars, eventVars, callVars>>

\* streaming mode, the model call fails: onFinish is not called
StreamError ==
  /\ hpc = "failed" /\ request[1].stream
  /\ hpc' = "closed"
  /\ UNCHANGED <<usageHistory, freshProcess, request, script, steps,
                 lastTurn, toolExecs, toolResults, sawResults, sdk, response>>
  /\ UNCHANGED <<client, posted>>
  /\ UNCHANGED <<ledgerCall, ledgerRead>>
  /\ UNCHANGED <<relayVars, eventVars, callVars>>

(***************************************************************************)
(* Specifications.                                                         *)
(***************************************************************************)
(***************************************************************************)
(* The ledger on its own: calls of trackUsage, the billing endpoint and    *)
(* the credit check, from the start of the process.                        *)
(***************************************************************************)
\* a priced model, a model without a price, and a name every object has
LedgerModels == {"deepseek-chat", "my-model"} \cup ObjectPrototypeKeys

LedgerTokens == 0..MaxLedgerTokens

\* trackUsage(model, promptTokens, completionTokens)
TrackUsage ==
  /\ Len(usageHistory) < MaxRecords
  /\ \E model \in LedgerModels, promptTokens, completionTokens \in LedgerTokens :
       LET tracked == trackUsage(usageHistory, model, promptTokens,
                                 completionTokens)
       IN  /\ usageHistory' = tracked.history
           /\ ledgerCall' = Some([n |-> Len(usageHistory) + 1, model |-> model,
                                  promptTokens |-> promptTokens,
                                  completionTokens |-> completionTokens,
                                  totalBefore |-> getTotalCost(usageHistory),
                                  returned |-> tracked.billing])
  /\ UNCHANGED <<freshProcess, request, script, hpc, steps, lastTurn,
                 toolExecs, toolResults, sawResults, sdk, response, client,
                 posted, ledgerRead>>
  /\ UNCHANGED <<relayVars, eventVars, callVars>>

\* the total is read before the newest record was appended
BillingGetTorn ==
  /\ ledgerRead' = Some([of |-> "billing",
                         totalCost |->
                           IF usageHistory = <<>> THEN 0
                           ELSE getTotalCost(Front(usageHistory)),
                         usageHistory |-> getUsageHistory(usageHistory),
                         costByModel |-> getCostByModel(usageHistory)])
  /\ UNCHANGED <<usageHistory, freshProcess, request, script, hpc, steps,
                 lastTurn, toolExecs, toolResults, sawResults, sdk, response,
                 client, posted, ledgerCall>>
  /\ UNCHANGED <<relayVars, eventVars, callVars>>

\* GET /api/billing
BillingGet ==
  /\ ledgerRead' = Some([of |-> "billing",
                         totalCost |-> getTotalCost(usageHistory),
                         usageHistory |-> getUsageHistory(usageHistory),
                         costByModel |-> getCostByModel(usageHistory)])
  /\ UNCHANGED <<usageHistory, freshProcess, request, script, hpc, steps,
                 lastTurn, toolExecs, toolResults, sawResults, sdk, response,
                 client, posted, ledgerCall>>
  /\ UNCHANGED <<relayVars, eventVars, callVars>>

\* getCredits() <= 0, the test a request starts with
CreditCheck ==
  /\ ledgerRead' = Some([of |-> "credits",
                         blocked |-> AtMostZero(getCredits(usageHistory))])
  /\ UNCHANGED <<usageHistory, freshProcess, request, script, hpc, steps,
                 lastTurn, toolExecs, toolResults, sawResults, sdk, response,
                 client, posted, ledgerCall>>
  /\ UNCHANGED <<relayVars, eventVars, callVars>>

\* the earlier code review route, streaming with a GitHub token: when the
\* stream has been read to its end and text was collected, the comment is
\* posted without being awaited, its rejection caught and logged
StreamComment ==
  /\ hpc = "closed" /\ request[1].stream /\ request[1].githubPR
  /\ sdk.kind = "result" /\ sdk.text # <<>> /\ posted = <<>>
  /\ \E outcome \in CommentOutcomes : posted' = Append(posted, outcome)
  /\ UNCHANGED <<usageHistory, freshProcess, request, script, hpc, steps,
                 lastTurn, toolExecs, toolResults, sawResults, sdk, response,
                 client>>
  /\ UNCHANGED <<ledgerCall, ledgerRead>>
  /\ UNCHANGED <<relayVars, eventVars, callVars>>

\* Texts are sequences of tokens; "/" and each digit is a token of its own,
\* every other token is a run of characters without "/" and without digits
\* that matter. toLowerCase of a token, as the flag i of the pattern
\* compares it
Lower(t) ==
  CASE t = "GitHub.COM" -> "github.com"
    [] t = "PULL" -> "pull"
    [] OTHER -> t

Digits == {"1", "2"}

\* the index of the first "/" of s at or after from, 0 when there is none
NextSlash(s, from) ==
  LET at == {j \in from..Len(s) : s[j] = "/"}
  IN  IF at = {} THEN 0 ELSE CHOOSE j \in at : \A k \in at : j <= k

\* the end of the run of digits of s that starts at from
DigitsEnd(s, from) ==
  LET stop == {j \in from..Len(s) : s[j] \notin Digits}
  IN  IF stop = {} THEN Len(s)
      ELSE (CHOOSE j \in stop : \A k \in stop : j <= k) - 1

\* /github\.com\/([^\/]+)\/([^\/]+)\/pull\/(\d+)/i tried at index i of s:
\* Nil, or the three groups. A group [^\/]+ that must be followed by "/"
\* extends to the next "/", whatever lies between
MatchAt(s, i) ==
  LET ownerEnd == NextSlash(s, i + 2)
      repoEnd == IF ownerEnd = 0 THEN 0 ELSE NextSlash(s, ownerEnd + 1)
  IN  IF /\ i + 1 <= Len(s) /\ Lower(s[i]) = "github.com" /\ s[i + 1] = "/"
         /\ ownerEnd > i + 2
         /\ repoEnd > ownerEnd + 1
         /\ repoEnd + 3 <= Len(s)
         /\ Lower(s[repoEnd + 1]) = "pull" /\ s[repoEnd + 2] = "/"
         /\ s[repoEnd + 3] \in Digits
      THEN Some([owner |-> SubSeq(s, i + 2, ownerEnd - 1),
                 repo |-> SubSeq(s, ownerEnd + 1, repoEnd - 1),
                 prNumber |-> SubSeq(s, repoEnd + 3,
                                     DigitsEnd(s, repoEnd + 3))])
      ELSE Nil

\* String.prototype.match with the pattern, not anchored: the leftmost
\* index at which it matches, Nil (null) when there is none
PRMatch(s) ==
  LET at == {i \in 1..Len(s) : MatchAt(s, i) # Nil}
  IN  IF at = {} THEN Nil
      ELSE MatchAt(s, CHOOSE i \in at : \A k \in at : i <= k)

\* URLs by their parts: before, what stands between the scheme and the
\* host name written in the URL
URLParts ==
  [before : {<<>>, <<"not">>, <<"evil.com", "/">>},
   host : {"github.com", "GitHub.COM", "gitlab.com"},
   owner : {"o"}, repo : {"r"},
   kind : {"pull", "PULL", "issues"},
   number : {<<>>, <<"1">>, <<"1", "2">>},
   tail : {<<>>, <<"?", "q=", "2">>, <<"#", "2">>}]

\* the URL as text
UrlText(u) ==
  <<"https://">> \o u.before \o <<u.host, "/", u.owner, "/", u.repo, "/",
                                 u.kind, "/">> \o u.number \o u.tail

\* parts.map(p => p.type === 'text' ? p.text : '').join('')
RECURSIVE JoinTextParts(_)
JoinTextParts(parts) ==
  IF parts = <<>> THEN <<>>
  ELSE (IF Head(parts).type = "text" THEN Head(parts).text ELSE <<>>)
         \o JoinTextParts(Tail(parts))

\* a message as extractPRInfo probes it: parts and content are Nil when the
\* field is absent; content is a string or an array of parts
StringContent(text) == Some([type |-> "string", text |-> text, items |-> <<>>])

ArrayContent(items) == Some([type |-> "array", text |-> <<>>, items |-> items])

\* let content of the loop body of extractPRInfo
ContentOf(message) ==
  IF message.parts # Nil THEN JoinTextParts(message.parts[1])
  ELSE IF message.content # Nil /\ message.content[1].type = "string"
       THEN message.content[1].text
  ELSE IF message.content # Nil /\ message.content[1].type = "array"
       THEN JoinTextParts(message.content[1].items)
  ELSE <<>>

\* the loop over the messages: the match of the first message that has one
RECURSIVE MatchInMessages(_)
MatchInMessages(messages) ==
  IF messages = <<>> THEN Nil
  ELSE IF PRMatch(ContentOf(Head(messages))) # Nil
       THEN PRMatch(ContentOf(Head(messages)))
  ELSE MatchInMessages(Tail(messages))

\* the messages are searched first, the explicit URL after them
extractPRInfoMessagesFirst(prUrl, messages) ==
  IF messages # Nil /\ MatchInMessages(messages[1]) # Nil
  THEN MatchInMessages(messages[1])
  ELSE IF prUrl # Nil THEN PRMatch(prUrl[1]) ELSE Nil

\* extractPRInfo: Nil is null; prUrl and messages are Nil when not given,
\* and the empty string counts as not given
extractPRInfo(prUrl, messages) ==
  IF prUrl # Nil /\ prUrl[1] # <<>> /\ PRMatch(prUrl[1]) # Nil
  THEN PRMatch(prUrl[1])
  ELSE IF messages # Nil THEN MatchInMessages(messages[1])
  ELSE Nil

MaxMessages == 2

TextPart(text) == [type |-> "text", text |-> text]

OtherPart(type) == [type |-> type, text |-> <<>>]

\* two pull request URLs, a text without one, and a URL in two halves
UrlOne == <<"see", "https://", "github.com", "/", "o", "/", "r", "/", "pull",
            "/", "1">>

UrlTwo == <<"https://", "github.com", "/", "p", "/", "s", "/", "pull", "/",
            "2", "2">>

UrlHead == <<"https://", "github.com", "/", "o", "/", "r", "/">>

UrlRest == <<"pull", "/", "1", "?", "q=">>

\* the messages searched: flat, with parts, with array content, without
\* content
SearchedMessages ==
  {[role |-> "user", parts |-> Nil, content |-> StringContent(t)] :
     t \in {UrlOne, UrlTwo, <<"hello">>, <<>>}}
  \cup {[role |-> "user", parts |-> Some(p), content |-> Nil] :
          p \in {<<>>,
                 <<TextPart(UrlHead), TextPart(UrlRest)>>,
                 <<TextPart(UrlHead), OtherPart("file"), TextPart(UrlRest)>>,
                 <<OtherPart("file"), TextPart(UrlTwo)>>,
                 <<TextPart(UrlRest), TextPart(UrlHead)>>}}
  \cup {[role |-> "user", parts |-> Nil, content |-> ArrayContent(p)] :
          p \in {<<TextPart(UrlOne)>>, <<OtherPart("image")>>}}
  \cup {[role |-> "user", parts |-> Nil, content |-> Nil]}

\* the calls of extractPRInfo: every URL alone, and some URLs, the empty
\* string and no URL beside every list of messages
ExtractCalls ==
  [op : {"extractPRInfo"}, prUrl : {Some(UrlText(u)) : u \in URLParts},
   messages : {Nil}]
  \cup [op : {"extractPRInfo"},
        prUrl : {Nil, Some(<<>>), Some(<<"https://", "gitlab.com", "/", "o">>),
                 Some(<<"https://", "github.com", "/", "q", "/", "t", "/",
                        "pull", "/", "1", "2">>)},
        messages : {Some(ms) : ms \in SeqsUpTo(SearchedMessages, MaxMessages)}]

ExtractPRInfo ==
  /\ invoked.op = "extractPRInfo" /\ settled = Nil
  /\ settled' = Some(extractPRInfo(invoked.prUrl, invoked.messages))
  /\ UNCHANGED invoked
  /\ UNCHANGED <<relayVars, eventVars, handlerVars>>

\* how an async function ends: fulfilled with a string, or rejected
Fulfilled(text) == [kind |-> "fulfilled", value |-> text]

RejectedWith(thrown) == [kind |-> "rejected", value |-> thrown.message]

\* what can be thrown: an Error with its message, or a value that is no
\* Error
ThrownValues ==
  {[isError |-> TRUE, message |-> <<"ENOENT">>],
   [isError |-> FALSE, message |-> <<"thrown">>]}

\* no catch block: what is thrown rejects the promise of execute
LeftUncaught(prefix, thrown) == RejectedWith(thrown)

\* catch (error) { return `<prefix> ${error instanceof Error ?
\* error.message : 'Unknown error'}` }
CaughtAsText(prefix, thrown) ==
  Fulfilled(<<prefix>> \o (IF thrown.isError THEN thrown.message
                           ELSE <<"Unknown error">>))

\* what fs readFile(path, 'utf-8') does: the content, or it throws
FileOutcomes ==
  [kind : {"content"}, content : {<<>>, <<"c">>}, thrown : {CHOOSE t \in ThrownValues : TRUE}]
  \cup [kind : {"throws"}, content : {<<>>}, thrown : ThrownValues]

\* codeTools.readFile.execute
readFileExecute(fs) ==
  IF fs.kind = "content" THEN Fulfilled(fs.content)
  ELSE CaughtAsText("Error reading file:", fs.thrown)

\* what the body of the response of the GitHub API is: not JSON, JSON that
\* is no array, [], [null], an array whose file has a number as patch, an
\* array of files
Bodies == {"unreadable", "object", "empty", "nullItem", "numberPatch", "files"}

\* what fetch does: it rejects, or it gives a response
NetOutcomes ==
  [kind : {"rejects"}, thrown : ThrownValues, status : {"0"}, body : {"object"}]
  \cup [kind : {"responds"}, thrown : {CHOOSE t \in ThrownValues : TRUE},
        status : {"404", "403", "500"}, body : {"object", "unreadable"}]
  \cup [kind : {"responds"}, thrown : {CHOOSE t \in ThrownValues : TRUE},
        status : {"200"}, body : Bodies]

\* the SyntaxError of response.json() and the TypeError of file.filename
\* and of content.substring
SyntaxError == [isError |-> TRUE, message |-> <<"Unexpected token">>]

TypeError == [isError |-> TRUE, message |-> <<"Cannot read properties">>]

\* codeTools.readPullRequest.execute
readPullRequestExecute(prUrl, net) ==
  LET prUrlMatch == PRMatch(prUrl)
      caught == "Error reading pull request:"
  IN  IF prUrlMatch = Nil
      THEN Fulfilled(<<"Error: Invalid GitHub PR URL format">>)
      ELSE IF net.kind = "rejects" THEN CaughtAsText(caught, net.thrown)
      ELSE IF net.status # "200"
           THEN IF net.status = "404" THEN Fulfilled(<<"Error: PR not found">>)
                ELSE Fulfilled(<<"Error fetching PR files:", net.status>>)
      ELSE IF net.body = "unreadable" THEN CaughtAsText(caught, SyntaxError)
      ELSE IF net.body \in {"object", "empty"}
           THEN Fulfilled(<<"No files found in this pull request.">>)
      ELSE IF net.body \in {"nullItem", "numberPatch"}
           THEN CaughtAsText(caught, TypeError)
      ELSE Fulfilled(<<"{", "pr_url:">> \o prUrl
                       \o <<"owner:">> \o prUrlMatch[1].owner
                       \o <<"repo:">> \o prUrlMatch[1].repo
                       \o <<"pr_number:">> \o prUrlMatch[1].prNumber
                       \o <<"total_files:", "1", "files:", "f", "}">>)

\* the request is sent whatever the URL is
readPullRequestFetchesAlways(prUrl) ==
  <<<<"https://api.github.com/repos/">> \o prUrl>>

\* the requests codeTools.readPullRequest.execute sends with fetch: none
\* when the pattern does not match, else one GET of the files of the pull
\* request
readPullRequestFetches(prUrl) ==
  LET prUrlMatch == PRMatch(prUrl)
  IN  IF prUrlMatch = Nil THEN <<>>
      ELSE <<<<"https://api.github.com/repos/">> \o prUrlMatch[1].owner
               \o <<"/">> \o prUrlMatch[1].repo \o <<"/pulls/">>
               \o prUrlMatch[1].prNumber \o <<"/files">>>>

\* how a call ended, with the requests it sent
Outcome(ended, requests) ==
  [kind |-> ended.kind, value |-> ended.value, requests |-> requests]

\* the calls of the two tools, with what the file system and the network
\* will do
ToolCalls ==
  [op : {"readFile"}, fs : FileOutcomes]
  \cup [op : {"readPullRequest"}, prUrl : {UrlText(u) : u \in URLParts},
        net : NetOutcomes]

ReadFileTool ==
  /\ invoked.op = "readFile" /\ settled = Nil
  /\ settled' = Some(Outcome(readFileExecute(invoked.fs), <<>>))
  /\ UNCHANGED invoked
  /\ UNCHANGED <<relayVars, eventVars, handlerVars>>

ReadPullRequestTool ==
  /\ invoked.op = "readPullRequest" /\ settled = Nil
  /\ settled' = Some(Outcome(readPullRequestExecute(invoked.prUrl, invoked.net),
                             readPullRequestFetches(invoked.prUrl)))
  /\ UNCHANGED invoked
  /\ UNCHANGED <<relayVars, eventVars, handlerVars>>

\* the raw messages of a request: flat {role, content} and transport
\* {id, role, parts}; a tool part of the transport shape is a finished call
\* of readFile with its output
FlatMessages ==
  {[role |-> r, parts |-> Nil, content |-> StringContent(t)] :
     r \in {"user", "assistant"}, t \in {<<"a">>, <<"b">>, <<" ">>, <<>>}}

TransportMessages ==
  {[role |-> "user", parts |-> Some(p), content |-> Nil] :
     p \in {<<TextPart(<<"a">>)>>, <<TextPart(<<"a">>), TextPart(<<"b">>)>>,
            <<TextPart(<<>>)>>, <<>>}}
  \cup {[role |-> "assistant", parts |-> Some(p), content |-> Nil] :
          p \in {<<TextPart(<<"b">>)>>, <<OtherPart("tool-readFile")>>,
                 <<TextPart(<<"a">>), OtherPart("tool-readFile")>>}}

\* the messages are taken last to first
normalizedMessagesReversed(rawMessages, streaming) ==
  LET n == Len(rawMessages)
  IN  IF streaming THEN [i \in 1..n |-> rawMessages[n + 1 - i]]
      ELSE [i \in 1..n |->
              [role |-> rawMessages[n + 1 - i].role,
               parts |-> Some(<<TextPart(IF rawMessages[n + 1 - i].content # Nil
                                         THEN rawMessages[n + 1 - i].content[1].text
                                         ELSE <<>>)>>),
               content |-> Nil]]

\* lines 70-83: in streaming mode the raw messages are taken as they are;
\* in buffered mode each becomes {id, role, parts: [{type: 'text', text:
\* m.content}]}, and the content of a message that has none is undefined,
\* which join('') renders as the empty text
normalizedMessages(rawMessages, streaming) ==
  IF streaming THEN rawMessages
  ELSE [i \in 1..Len(rawMessages) |->
          [role |-> rawMessages[i].role,
           parts |-> Some(<<TextPart(IF rawMessages[i].content # Nil
                                     THEN rawMessages[i].content[1].text
                                     ELSE <<>>)>>),
           content |-> Nil]]

\* a message of the canonical list; toolCalls and toolResults are fields
\* it does not have, Nil is undefined
ModelMessage(role, content) ==
  [role |-> role, content |-> content, toolCalls |-> Nil, toolResults |-> Nil]

\* the text parts of a message in their order and a tool-call part for
\* each tool part
RECURSIVE ModelContent(_)
ModelContent(parts) ==
  IF parts = <<>> THEN <<>>
  ELSE (IF Head(parts).type = "text" THEN <<Head(parts)>>
        ELSE IF Head(parts).type = "tool-readFile"
             THEN <<OtherPart("tool-call")>>
        ELSE <<>>) \o ModelContent(Tail(parts))

\* convertToModelMessages of the SDK: one message with the role and the
\* parts of the input message, followed by a message of role tool with the
\* results when the input message has tool parts
RECURSIVE convertToModelMessages(_)
convertToModelMessages(uiMessages) ==
  IF uiMessages = <<>> THEN <<>>
  ELSE LET m == Head(uiMessages)
           results == SelectSeq(m.parts[1], LAMBDA p : p.type = "tool-readFile")
       IN  <<ModelMessage(m.role, ModelContent(m.parts[1]))>>
             \o (IF results = <<>> THEN <<>>
                 ELSE <<ModelMessage("tool",
                                     [i \in 1..Len(results) |->
                                        OtherPart("tool-result")])>>)
             \o convertToModelMessages(Tail(uiMessages))

\* lines 90-112, the callback of filter: isValid
isValid(m) ==
  LET contentStr == JoinTextParts(m.content)
      hasContent == \E i \in 1..Len(contentStr) : contentStr[i] # " "
      hasToolCalls == m.toolCalls # Nil /\ Len(m.toolCalls[1]) > 0
      hasToolResults == m.toolResults # Nil /\ Len(m.toolResults[1]) > 0
  IN  hasContent \/ hasToolCalls \/ hasToolResults

\* lines 64-112: the messages handed to the model call
normalize(rawMessages, streaming, providerId) ==
  LET messages ==
        convertToModelMessages(normalizedMessages(rawMessages, streaming))
  IN  IF providerId = "cohere" THEN SelectSeq(messages, isValid)
      ELSE messages

\* the calls: flat lists in buffered mode, transport lists in both modes
NormalizeCalls ==
  [op : {"normalize"}, rawMessages : SeqsUpTo(FlatMessages, MaxMessages),
   stream : {FALSE}, providerId : {"openai", "cohere"}]
  \cup [op : {"normalize"},
        rawMessages : SeqsUpTo(TransportMessages, MaxMessages),
        stream : BOOLEAN, providerId : {"openai", "cohere"}]

Normalize ==
  /\ invoked.op = "normalize" /\ settled = Nil
  /\ settled' = Some(normalize(invoked.rawMessages, invoked.stream,
                               invoked.providerId))
  /\ UNCHANGED invoked
  /\ UNCHANGED <<relayVars, eventVars, handlerVars>>

(***************************************************************************)
(* The earlier code review route, streaming with a GitHub token and a pull *)
(* request: start() of the stream that forwards the chunks of the          *)
(* handler's response, collects the text and posts the comment.            *)
(***************************************************************************)
\* the body of `for (const line of lines)`: a numbered line whose payload
\* parses as JSON; a delta is appended, a full text replaces
reviewLine(line, collected) ==
  IF Trim(line) = <<>> THEN collected
  ELSE IF Head(line) = "Z" /\ JSONparse(Tail(line)) # Nil
  THEN LET data == JSONparse(Tail(line))[1]
           t1 == IF data.type = "text-delta" /\ data.textDelta # <<>>
                 THEN collected.text \o data.textDelta ELSE collected.text
           t2 == IF data.type = "text" /\ data.text # <<>> THEN data.text
                 ELSE t1
       IN  [text |-> t2, usage |-> ExtractUsage(data, collected.usage)]
  ELSE collected

RECURSIVE reviewLines(_, _)
reviewLines(lines, collected) ==
  IF lines = <<>> THEN collected
  ELSE reviewLines(Tail(lines), reviewLine(Head(lines), collected))

\* "Process any remaining buffer": a delta and the usage of a finish event
reviewRemaining(rest, collected) ==
  IF Trim(rest) # <<>> /\ Head(rest) = "Z" /\ JSONparse(Tail(rest)) # Nil
  THEN LET data == JSONparse(Tail(rest))[1]
       IN  [text |-> IF data.type = "text-delta" /\ data.textDelta # <<>>
                     THEN collected.text \o data.textDelta
                     ELSE collected.text,
            usage |-> IF data.type = "finish" /\ data.usage # Nil
                      THEN Some(FinishUsage(data.usage[1]))
                      ELSE collected.usage]
  ELSE collected

\* the call of postPRComment with the collected text, and the number of
\* calls made so far
CommentCall(text) ==
  [op |-> "postPRComment", text |-> text,
   posts |-> IF invoked = NoCall THEN 1 ELSE invoked.posts + 1]

\* the consumer cancels the output; the stream has no cancel callback and
\* the reader is left alone
ReviewCancel ==
  /\ outState = "readable" /\ pc \in {"awaitRead", "resume"}
  /\ outState' = "closed"
  /\ cancelledAt' = Some([pos |-> pos, forwarded |-> output.chunks])
  /\ UNCHANGED <<stream, pos, upstream, pc, pending, carry, buffer, result,
                 chunkCount, output, onCompleteCalls, readerCancels, escaped>>
  /\ UNCHANGED <<eventVars, handlerVars, callVars>>

\* the comment is posted as soon as a chunk has brought text
ReviewChunkPosting ==
  /\ pc = "resume" /\ pending.kind = "chunk"
  /\ LET enq == ControllerEnqueue(outState, output, pending.value)
         decoded == Decode(carry, pending.value)
         lines == SplitNL(buffer \o decoded.text)
         collected == reviewLines(Front(lines), result)
     IN  /\ output' = enq.queue
         /\ IF enq.ok
            THEN /\ carry' = decoded.carry /\ buffer' = Last(lines)
                 /\ result' = collected
                 /\ invoked' = IF collected.text # <<>>
                               THEN CommentCall(collected.text) ELSE invoked
                 /\ outState' = outState /\ pc' = "awaitRead"
            ELSE /\ outState' = ControllerError(outState) /\ pc' = "returned"
                 /\ UNCHANGED <<carry, buffer, result, invoked>>
  /\ pending' = NoPending
  /\ chunkCount' = chunkCount + 1
  /\ UNCHANGED <<stream, pos, upstream, onCompleteCalls, readerCancels,
                 cancelledAt, escaped, settled>>
  /\ UNCHANGED <<eventVars, handlerVars>>

\* controller.enqueue(value), which throws when the output is no longer
\* readable; buffer += decode(value); the complete lines are processed
ReviewChunk ==
  /\ pc = "resume" /\ pending.kind = "chunk"
  /\ LET enq == ControllerEnqueue(outState, output, pending.value)
         decoded == Decode(carry, pending.value)
         lines == SplitNL(buffer \o decoded.text)
     IN  /\ output' = enq.queue
         /\ IF enq.ok
            THEN /\ carry' = decoded.carry /\ buffer' = Last(lines)
                 /\ result' = reviewLines(Front(lines), result)
                 /\ outState' = outState /\ pc' = "awaitRead"
            ELSE \* catch: controller.error(error)
                 /\ outState' = ControllerError(outState) /\ pc' = "returned"
                 /\ UNCHANGED <<carry, buffer, result>>
  /\ pending' = NoPending
  /\ chunkCount' = chunkCount + 1
  /\ UNCHANGED <<stream, pos, upstream, onCompleteCalls, readerCancels,
                 cancelledAt, escaped>>
  /\ UNCHANGED <<eventVars, handlerVars, callVars>>

\* done: the remaining buffer is processed, postPRComment is called when
\* text was collected, and not awaited, and controller.close() follows;
\* close throws when the output was cancelled, and the catch errors nothing
ReviewEnd ==
  /\ pc = "resume" /\ pending.kind = "done"
  /\ LET collected == reviewRemaining(buffer, result)
     IN  /\ result' = collected
         /\ invoked' = IF collected.text # <<>> THEN CommentCall(collected.text)
                       ELSE invoked
  /\ outState' = ControllerClose(outState).state
  /\ pending' = NoPending
  /\ pc' = "returned"
  /\ UNCHANGED <<stream, pos, upstream, carry, buffer, chunkCount, output,
                 onCompleteCalls, readerCancels, cancelledAt, escaped,
                 settled>>
  /\ UNCHANGED <<eventVars, handlerVars>>

\* reader.read() rejected: catch, controller.error(error)
ReviewCatch ==
  /\ pc = "resume" /\ pending.kind = "error"
  /\ outState' = ControllerError(outState)
  /\ pc' = "returned"
  /\ UNCHANGED <<stream, pos, upstream, pending, carry, buffer, result,
                 chunkCount, output, onCompleteCalls, readerCancels,
                 cancelledAt, escaped>>
  /\ UNCHANGED <<eventVars, handlerVars, callVars>>

\* the promise of postPRComment settles; its rejection is logged by .catch
CommentSettles ==
  /\ invoked.op = "postPRComment" /\ settled = Nil
  /\ \E outcome \in CommentOutcomes : settled' = Some(outcome)
  /\ UNCHANGED invoked
  /\ UNCHANGED <<relayVars, eventVars, handlerVars>>

vars == <<relayVars, eventVars, handlerVars, callVars>>

RelayIdle == RelayStart({<<>>}, "idle")

Init ==
  /\ RelayStart(Streams(MaxRelayLines), "awaitRead")
  /\ EventsIdle /\ HandlerIdle /\ CallIdle

Next ==
  \/ ReadChunk \/ ReadDone \/ ReadError \/ Cancel
  \/ Forward \/ Parse \/ Done \/ Flush \/ Close \/ Throw \/ Catch

Spec == Init /\ [][Next]_vars

ParseInit ==
  /\ RelayStart(Streams(MaxLines), "feed")
  /\ EventsIdle /\ HandlerIdle /\ CallIdle

ParseNext == FeedChunk \/ FeedEnd

SpecParse == ParseInit /\ [][ParseNext]_vars

\* sequences of events that carry text
EventsInit ==
  /\ RelayIdle /\ HandlerIdle /\ CallIdle
  /\ EventsStart(SeqsUpTo({Payload(k) : k \in TextKinds}, MaxEvents))

EventsNext == ApplyEvent

SpecEvents == EventsInit /\ [][EventsNext]_vars

\* one event that carries usage, alone or after another
UsageInit ==
  /\ RelayIdle /\ HandlerIdle /\ CallIdle
  /\ EventsStart({<<d>> : d \in UsageEvents}
                 \cup {<<Payload("u"), d>> : d \in UsageEvents})

UsageNext == ApplyEvent

SpecUsage == UsageInit /\ [][UsageNext]_vars

HandlerInit == RelayIdle /\ EventsIdle /\ HandlerStart /\ CallIdle

HandlerNext ==
  \/ HandleRequest \/ ModelTurn \/ ExecuteTools
  \/ BufferedReturn \/ BufferedCatch \/ StreamFinish \/ StreamError
  \/ StreamComment

SpecHandler == HandlerInit /\ [][HandlerNext]_vars

\* the model call and the tools are awaited and settle
FairSpecHandler == SpecHandler /\ WF_vars(HandlerNext)

LedgerInit == RelayIdle /\ EventsIdle /\ HandlerIdle /\ CallIdle

LedgerNext == TrackUsage \/ BillingGet \/ CreditCheck

SpecLedger == LedgerInit /\ [][LedgerNext]_vars

\* every request body and environment, the model answering at once
AdmissionInit ==
  /\ RelayIdle /\ EventsIdle /\ CallIdle
  /\ HandlerStartWith(Requests,
                      {[calls |-> 0, tool |-> "readFile", final |-> "text",
                        says |-> "nothing"]})

AdmissionNext == HandleRequest \/ ModelTurn \/ BufferedReturn \/ StreamFinish

SpecAdmission == AdmissionInit /\ [][AdmissionNext]_vars

\* the two tools on every call
ToolsInit ==
  /\ RelayIdle /\ EventsIdle /\ HandlerIdle
  /\ invoked \in ToolCalls /\ settled = Nil

ToolsNext == ReadFileTool \/ ReadPullRequestTool

SpecTools == ToolsInit /\ [][ToolsNext]_vars

\* the normalization on every call
NormalizeInit ==
  /\ RelayIdle /\ EventsIdle /\ HandlerIdle
  /\ invoked \in NormalizeCalls /\ settled = Nil

NormalizeNext == Normalize

SpecNormalize == NormalizeInit /\ [][NormalizeNext]_vars

\* the stream of a review that is commented on
ReviewStreamInit ==
  /\ RelayStart(Streams(MaxRelayLines), "awaitRead")
  /\ EventsIdle /\ HandlerIdle /\ CallIdle

ReviewStreamNext ==
  \/ ReadChunk \/ ReadDone \/ ReadError \/ ReviewCancel
  \/ ReviewChunk \/ ReviewEnd \/ ReviewCatch \/ CommentSettles

SpecReviewStream == ReviewStreamInit /\ [][ReviewStreamNext]_vars

\* the requests to POST /github/pr-comment: the review text, the token of
\* the body and of the x-github-token header, and the URL
CommentRequests ==
  [op : {"POST /github/pr-comment"},
   reviewText : {<<>>, <<" ">>, <<"S">>},
   githubToken : {Nil, Some(<<"ghp_body">>)},
   headerToken : {Nil, Some(<<"ghp_header">>)},
   prUrl : {Nil} \cup {Some(UrlText(u)) : u \in URLParts}]

\* githubToken || req.headers.get('x-github-token') || ''
resolvedGithubToken(req) ==
  IF req.githubToken # Nil /\ req.githubToken[1] # <<>> THEN req.githubToken[1]
  ELSE IF req.headerToken # Nil THEN req.headerToken[1]
  ELSE <<>>

\* POST of the comment route: the three validations, the awaited
\* postPRComment and the catch block
CommentRoute ==
  /\ invoked.op = "POST /github/pr-comment" /\ settled = Nil
  /\ IF Trim(invoked.reviewText) = <<>>
     THEN /\ settled' = ErrorResponse(400, <<"reviewText is required">>)
          /\ posted' = posted
     ELSE IF resolvedGithubToken(invoked) = <<>>
     THEN /\ settled' = ErrorResponse(400, <<"GitHub token is required">>)
          /\ posted' = posted
     ELSE IF extractPRInfo(invoked.prUrl, Nil) = Nil
     THEN /\ settled' = ErrorResponse(
                          400, <<"Could not extract PR information from URL">>)
          /\ posted' = posted
     ELSE \E answer \in GitHubAnswers :
            LET outcome == postPRComment(answer)
            IN  /\ posted' = Append(posted, outcome)
                /\ settled' = IF outcome.kind = "ok"
                              THEN Response(200, "json", <<>>,
                                            <<"Comment posted to">>, Nil, Nil)
                              ELSE ErrorResponse(500, outcome.error)
  /\ UNCHANGED invoked
  /\ UNCHANGED <<usageHistory, freshProcess, request, script, hpc, steps,
                 lastTurn, toolExecs, toolResults, sawResults, sdk, response,
                 client>>
  /\ UNCHANGED <<ledgerCall, ledgerRead>>
  /\ UNCHANGED <<relayVars, eventVars>>

CommentRouteInit ==
  /\ RelayIdle /\ EventsIdle /\ HandlerIdle
  /\ invoked \in CommentRequests /\ settled = Nil

CommentRouteNext == CommentRoute

SpecCommentRoute == CommentRouteInit /\ [][CommentRouteNext]_vars

(***************************************************************************)
(* What the log statements write about a key or a token.  A secret is the  *)
(* sequence of its characters.                                             *)
(***************************************************************************)
LogPrefixLength == 10

\* s.substring(0, n)
Substring(s, n) == SubSeq(s, 1, IF Len(s) < n THEN Len(s) ELSE n)

\* secrets of eleven and twelve characters that differ in the first
\* character, in the last one, or in their length
Secrets ==
  {[i \in 1..11 |-> "a"], [i \in 1..11 |-> IF i = 1 THEN "b" ELSE "a"],
   [i \in 1..11 |-> IF i = 11 THEN "b" ELSE "a"], [i \in 1..12 |-> "a"]}

LogSites == {"handleAIRequest", "postPRComment", "codereview", "useAIChat"}

\* the parts of the log lines of a site that are computed from the secret
LogLines(site, secret) ==
  IF site = "handleAIRequest"
  THEN \* Has API Key: ${!!apiKey}; API key source: request body/environment
       <<<<"Has API Key:", IF secret # Nil /\ secret[1] # <<>>
                           THEN "true" ELSE "false">>,
         <<"API key source:", IF secret # Nil /\ secret[1] # <<>>
                              THEN "request body" ELSE "environment">>>>
  ELSE IF site = "postPRComment"
  THEN IF secret = Nil THEN <<>>
       ELSE <<<<"tokenPrefix:">> \o Substring(secret[1], LogPrefixLength)
                \o <<"...">>>>
  ELSE IF site = "codereview"
  THEN IF secret = Nil THEN <<>>
       ELSE <<<<"hasToken:", "true">>,
              <<"tokenLength:", Len(secret[1])>>,
              <<"tokenPrefix:">> \o Substring(secret[1], LogPrefixLength)
                \o <<"...">>>>
  ELSE \* the client hook
       <<<<"API Key:">> \o
           (IF secret # Nil /\ secret[1] # <<>>
            THEN Substring(secret[1], LogPrefixLength) \o <<"...">>
            ELSE <<"NOT SET">>)>>

\* two runs at one site that differ in the secret only
LogRuns ==
  [op : {"log"}, site : LogSites,
   first : {Nil} \cup {Some(k) : k \in Secrets},
   second : {Nil} \cup {Some(k) : k \in Secrets}]

\* both runs write their log lines
WriteLogs ==
  /\ invoked.op = "log" /\ settled = Nil
  /\ settled' = Some([first |-> LogLines(invoked.site, invoked.first),
                      second |-> LogLines(invoked.site, invoked.second)])
  /\ UNCHANGED invoked
  /\ UNCHANGED <<relayVars, eventVars, handlerVars>>

LogInit ==
  /\ RelayIdle /\ EventsIdle /\ HandlerIdle
  /\ invoked \in LogRuns /\ settled = Nil

LogNext == WriteLogs

SpecLog == LogInit /\ [][LogNext]_vars

(***************************************************************************)
(* POST of the code review route, as far as it invokes handleAIRequest:    *)
(* the current route and the earlier one, which intercepts the stream.     *)
(***************************************************************************)
RouteVersions == {"route.ts", "part_006"}

\* handleAIRequest up to the call of streamText or generateText: a
\* response, an exception, or the model run
handleAIRequestEntry(req, history) ==
  IF AtMostZero(getCredits(history)) THEN [kind |-> "response", status |-> 402]
  ELSE IF ~req.messagesOk THEN [kind |-> "response", status |-> 400]
  ELSE IF ~req.convertible THEN [kind |-> "throws", status |-> 0]
  ELSE IF ~HasProviderConfig(req.provider)
  THEN [kind |-> "response", status |-> 400]
  ELSE IF ~HasResolvedApiKey(req) THEN [kind |-> "response", status |-> 400]
  ELSE IF req.provider \notin DOMAIN providerConfigs
  THEN [kind |-> "throws", status |-> 0]
  ELSE [kind |-> "run", status |-> 200]

\* the catch block also takes over when the run has been started
FallsBackAfterRun(version, req, entry) ==
  /\ version = "part_006" /\ req.stream /\ req.githubPR
  /\ entry.kind \in {"throws", "run"}

\* the earlier route awaits handleAIRequest in the branch for streaming
\* with token and pull request, and its catch block invokes it again
FallsBack(version, req, entry) ==
  /\ version = "part_006" /\ req.stream /\ req.githubPR
  /\ entry.kind = "throws"

ReviewRequests ==
  {r \in Requests :
     /\ r.route = "codereview"
     /\ r.provider \in {"openai", "bogus", "constructor"}
     /\ r.apiKey # Some(<<>>) /\ r.env = {} /\ r.model = Nil /\ ~r.enableTools}

\* one invocation of handleAIRequest by the route; mayFallBack, the
\* invocation is the one inside the try block
ReviewInvoke(mayFallBack) ==
  LET req == request[1]
      entry == handleAIRequestEntry(req, usageHistory)
      again == mayFallBack /\ FallsBack(invoked.version, req, entry)
  IN  /\ invoked' = [invoked EXCEPT
                       !.calls = @ + 1,
                       !.runs = IF entry.kind = "run" THEN @ + 1 ELSE @]
      /\ hpc' = IF again THEN "fallback"
                ELSE IF entry.kind = "run" THEN "invoking"
                ELSE IF entry.kind = "response" \/ RouteAwaits(req)
                THEN "responded" ELSE "threw"
      /\ response' =
           IF again THEN response
           ELSE IF entry.kind = "response"
           THEN ErrorResponse(entry.status, <<"handled">>)
           ELSE IF entry.kind = "run"
           THEN IF req.stream THEN Response(200, "stream", <<>>, <<>>, Nil, Nil)
                ELSE response
           ELSE IF RouteAwaits(req) THEN ErrorResponse(500, <<"TypeError">>)
           ELSE response

\* POST up to its first invocation of handleAIRequest
ReviewCall ==
  /\ invoked.op = "POST /codereview" /\ hpc = "received"
  /\ ReviewInvoke(TRUE)
  /\ UNCHANGED <<usageHistory, freshProcess, request, script, steps, lastTurn,
                 toolExecs, toolResults, sawResults, sdk, client, posted>>
  /\ UNCHANGED <<ledgerCall, ledgerRead, settled>>
  /\ UNCHANGED <<relayVars, eventVars>>

\* the catch block of the intercepting branch: return handleAIRequest(...)
ReviewFallback ==
  /\ invoked.op = "POST /codereview" /\ hpc = "fallback"
  /\ ReviewInvoke(FALSE)
  /\ UNCHANGED <<usageHistory, freshProcess, request, script, steps, lastTurn,
                 toolExecs, toolResults, sawResults, sdk, client, posted>>
  /\ UNCHANGED <<ledgerCall, ledgerRead, settled>>
  /\ UNCHANGED <<relayVars, eventVars>>

\* the model run ends: a result is billed; an API call error is answered
\* 502 in buffered mode, another error is thrown again there; in streaming
\* mode the response has been returned before
ReviewRunEnds ==
  /\ invoked.op = "POST /codereview" /\ hpc = "invoking"
  /\ \E ending \in {"result", "api error", "error"} :
       LET req == request[1]
       IN  /\ usageHistory' =
                IF ending = "result"
                THEN deductCredits(usageHistory, ModelName(req), 1, 1).history
                ELSE usageHistory
           /\ invoked' = [invoked EXCEPT
                            !.billed = IF ending = "result" THEN @ + 1 ELSE @]
           /\ hpc' = IF ~req.stream /\ ending = "error" /\ ~RouteAwaits(req)
                     THEN "threw" ELSE "responded"
           /\ response' =
                IF req.stream THEN response
                ELSE IF ending = "result"
                THEN Response(200, "json", <<>>, <<"S">>, Nil, Nil)
                ELSE IF ending = "api error"
                THEN ErrorResponse(502, <<"AI provider API error">>)
                ELSE IF RouteAwaits(req)
                THEN ErrorResponse(500, <<"error">>)
                ELSE response
  /\ UNCHANGED <<freshProcess, request, script, steps, lastTurn, toolExecs,
                 toolResults, sawResults, sdk, client, posted>>
  /\ UNCHANGED <<ledgerCall, ledgerRead, settled>>
  /\ UNCHANGED <<relayVars, eventVars>>

\* another request completes meanwhile and appends its record
OtherRequestCompletes ==
  /\ invoked.op = "POST /codereview" /\ Len(usageHistory) < MaxRecords
  /\ usageHistory' = deductCredits(usageHistory, "gpt-4o", 1, 1).history
  /\ UNCHANGED <<freshProcess, request, script, hpc, steps, lastTurn,
                 toolExecs, toolResults, sawResults, sdk, response, client,
                 posted>>
  /\ UNCHANGED <<ledgerCall, ledgerRead>>
  /\ UNCHANGED <<relayVars, eventVars, callVars>>

ReviewRouteInit ==
  /\ RelayIdle /\ EventsIdle
  /\ freshProcess \in BOOLEAN
  /\ usageHistory = IF freshProcess THEN <<>> ELSE EarlierUsage
  /\ request \in {Some(r) : r \in ReviewRequests}
  /\ script = Nil /\ hpc = "received" /\ client = Nil
  /\ steps = 0 /\ lastTurn = NoTurn /\ toolExecs = 0 /\ toolResults = 0
  /\ sawResults = 0 /\ sdk = NoResult /\ response = Nil /\ posted = <<>>
  /\ ledgerCall = Nil /\ ledgerRead = Nil
  /\ invoked \in [op : {"POST /codereview"}, version : RouteVersions,
                  calls : {0}, runs : {0}, billed : {0}]
  /\ settled = Nil

ReviewRouteNext ==
  ReviewCall \/ ReviewFallback \/ ReviewRunEnds \/ OtherRequestCompletes

SpecReviewRoute == ReviewRouteInit /\ [][ReviewRouteNext]_vars

(***************************************************************************)
(* Several requests in flight: each completes once, buffered after         *)
(* generateText or in onFinish of its stream, and GET /api/billing reads   *)
(* in between.                                                             *)
(***************************************************************************)
MaxInFlight == 3

InFlightIds == 1..MaxInFlight

\* the requests in flight; request id is billed id prompt tokens, which
\* tells the records apart
InFlight ==
  [op : {"requests"},
   inflight : [InFlightIds -> [mode : {"buffered", "stream"},
                               model : {"gpt-4o", "my-model"}]],
   completed : {{}}]

\* the synchronous deductCredits of a completion
Completes(id, mode) ==
  /\ invoked.op = "requests" /\ id \notin invoked.completed
  /\ invoked.inflight[id].mode = mode
  /\ usageHistory' = deductCredits(usageHistory, invoked.inflight[id].model,
                                   id, 1).history
  /\ invoked' = [invoked EXCEPT !.completed = @ \cup {id}]
  /\ UNCHANGED <<freshProcess, request, script, hpc, steps, lastTurn,
                 toolExecs, toolResults, sawResults, sdk, response, client,
                 posted>>
  /\ UNCHANGED <<ledgerCall, ledgerRead, settled>>
  /\ UNCHANGED <<relayVars, eventVars>>

\* generateText has returned: deductCredits before the response is built
BufferedCompletes == \E id \in InFlightIds : Completes(id, "buffered")

\* onFinish of streamText: deductCredits, after the response was returned
StreamFinishes == \E id \in InFlightIds : Completes(id, "stream")

InFlightInit ==
  /\ RelayIdle /\ EventsIdle /\ HandlerIdle
  /\ invoked \in InFlight /\ settled = Nil

InFlightNext == BufferedCompletes \/ StreamFinishes \/ BillingGet

SpecInFlight == InFlightInit /\ [][InFlightNext]_vars

\* extractPRInfo on every call
ExtractInit ==
  /\ RelayIdle /\ EventsIdle /\ HandlerIdle
  /\ invoked \in ExtractCalls /\ settled = Nil

ExtractNext == ExtractPRInfo

SpecExtract == ExtractInit /\ [][ExtractNext]_vars

(***************************************************************************)
(* Properties of the stream relay/parser.                                  *)
(***************************************************************************)

\* C1: however the bytes of a stream are split into chunks, the {text, usage}
\* accumulated at the end of the stream equals the {text, usage} accumulated
\* when the whole stream arrives as a single chunk.
ChunkBoundaryInvariance == pc = "fed" => result = OneChunk(stream)

\* the bytes start() has received from reader.read()
Received ==
  IF pc = "resume" /\ pending.kind = "chunk" THEN pos - Len(pending.value)
  ELSE pos

\* C2: the output carries exactly the chunks read from the input, unmodified,
\* in the same order and number; a chunk is enqueued before it is decoded
\* and parsed, whether or not any of its lines parses.
ForwardsEveryChunk ==
  /\ output.bytes = SubSeq(stream, 1, Len(output.bytes))
  /\ output.chunks <= chunkCount
  /\ cancelledAt = Nil =>
       /\ output.bytes = SubSeq(stream, 1, Received)
       /\ output.chunks = chunkCount
  /\ pc = "parse" => output.last = pending.value
  /\ (pc = "returned" /\ cancelledAt = Nil /\ upstream = "open") =>
       output.bytes = stream

\* a stream none of whose lines parses was forwarded in several chunks
ForwardedUnparsed ==
  /\ pc = "returned" /\ cancelledAt = Nil /\ upstream = "open"
  /\ output.chunks >= 2 /\ output.bytes = stream
  /\ result = EmptyResult

\* the input ended normally: the reader reported done, nothing was cancelled
\* and no read failed
EndedNormally == pc = "returned" /\ cancelledAt = Nil /\ upstream = "open"

\* C3: when the input stream ends normally, onComplete is invoked exactly
\* once with the accumulated {text, usage|null}, also for an empty stream
\* and for a stream without text (text '' and usage null).
CompletesExactlyOnce == EndedNormally => onCompleteCalls = <<result>>

\* the consumer cancelled while the upstream still had bytes to deliver
CancelledEarly == cancelledAt # Nil /\ cancelledAt[1].pos < Len(stream)

\* C4: if the consumer cancels before the input has ended, onComplete is
\* never invoked, reader.cancel() is called and no further chunk is enqueued.
CancelSuppressesCompletion ==
  CancelledEarly =>
    /\ onCompleteCalls = <<>>
    /\ readerCancels >= 1
    /\ output.chunks = cancelledAt[1].forwarded

ReadFailed == pc = "returned" /\ upstream = "errored"

\* C5: if reader.read() rejects, the output always ends errored, onComplete
\* is not invoked and no exception leaves the relay.
ReadFailureErrorsOutput ==
  /\ ~escaped
  /\ ReadFailed => outState = "errored" /\ onCompleteCalls = <<>>

\* C5 (amended): if reader.read() rejects, the output never stays open: an
\* abort closes it normally, any other error puts it in the errored state
\* unless the consumer had already cancelled it; onComplete is not invoked and
\* no exception leaves the relay.
ReadFailureEndsOutput ==
  /\ ~escaped
  /\ ReadFailed =>
       /\ outState = IF \/ cancelledAt # Nil
                        \/ pending.value[1] \in {"AbortError", "aborted"}
                     THEN "closed" ELSE "errored"
       /\ onCompleteCalls = <<>>

\* a read failed after chunks had been forwarded and the output is errored
ReadFailureAfterForwarding ==
  ReadFailed /\ outState = "errored" /\ output.chunks > 0

\* the physical lines of a stream
PhysicalLines(bytes) == SplitNL(Decode(FALSE, bytes).text)

HasInvalidLine(bytes) ==
  \E i \in 1..Len(PhysicalLines(bytes)) :
    /\ Trim(PhysicalLines(bytes)[i]) # <<>>
    /\ parseStreamLine(PhysicalLines(bytes)[i]) = Nil

\* C6: a line of neither framing, or whose payload is not JSON, changes
\* nothing and aborts nothing: the final result is that of the valid lines
\* of the stream, applied in order.
MalformedLinesIgnored ==
  (pc = "fed" /\ HasInvalidLine(stream)) =>
    result = ApplyLines(PhysicalLines(stream), EmptyResult)

\* the events applied so far
AppliedEvents == SubSeq(events, 1, applied)

\* what an event that is not a full-text event appends
DeltaOf(d) ==
  (IF d.type = "text-delta" THEN d.textDelta
   ELSE IF d.type = "text-chunk" THEN d.text ELSE <<>>)
  \o ContentText(d.content)

\* the text of the last full-text event followed by the deltas after it
RECURSIVE TextAfter(_)
TextAfter(evs) ==
  IF evs = <<>> THEN <<>>
  ELSE IF Last(evs).type = "text" THEN Last(evs).text
       ELSE TextAfter(Front(evs)) \o DeltaOf(Last(evs))

\* C7: after any sequence of parsed events the accumulated text is the text
\* of the last full-text event, if any, followed by the deltas received
\* after it: a full-text event replaces what was accumulated before it.
FullTextReplaces == acc.text = TextAfter(AppliedEvents)

\* either naming of the two counts, the total summed when it is absent
NormalizedUsage(u) ==
  LET p == IF u.promptTokens # Nil THEN u.promptTokens[1]
           ELSE IF u.inputTokens # Nil THEN u.inputTokens[1] ELSE 0
      c == IF u.completionTokens # Nil THEN u.completionTokens[1]
           ELSE IF u.outputTokens # Nil THEN u.outputTokens[1] ELSE 0
  IN  [promptTokens |-> p, completionTokens |-> c,
       totalTokens |-> IF u.totalTokens # Nil THEN u.totalTokens[1]
                       ELSE p + c]

\* the usage of the last event that carries one, normalized
RECURSIVE UsageAfter(_)
UsageAfter(evs) ==
  IF evs = <<>> THEN Nil
  ELSE LET d == Last(evs)
       IN  IF d.metadataUsage # Nil
           THEN Some(NormalizedUsage(d.metadataUsage[1]))
           ELSE IF d.type = "finish" /\ d.usage # Nil
                THEN Some(NormalizedUsage(d.usage[1]))
                ELSE UsageAfter(Front(evs))

\* C8: usage on a finish event or in message metadata is normalized to the
\* same {promptTokens, completionTokens, totalTokens} under either naming,
\* totalTokens being the sum when absent; a finish event without usage
\* leaves the usage as it was, null when none came before.
UsageNormalizedUnderEitherNaming == acc.usage = UsageAfter(AppliedEvents)

\* a buffered code review with provider openai, a key and tools, of a
\* fresh process, in which the model calls readFile once and then answers
ReviewScenario ==
  /\ hpc = "responded" /\ freshProcess
  /\ request[1].route = "codereview" /\ ~request[1].stream
  /\ request[1].provider = "openai" /\ HasResolvedApiKey(request[1])
  /\ request[1].messagesOk
  /\ script[1] = [calls |-> 1, tool |-> "readFile", final |-> "text",
                 says |-> "nothing"]

\* C9: from a fresh process, such a request executes the tool, invokes the
\* model again with the tool result appended and returns {text, usage,
\* billing}, with billing.cost > 0 whenever completionTokens > 0.
BufferedReviewEndToEnd ==
  ReviewScenario =>
    /\ toolExecs = 1 /\ steps = 2 /\ sawResults = 1
    /\ response[1].status = 200 /\ response[1].text = <<"T">>
    /\ response[1].usage # Nil /\ response[1].billing # Nil
    /\ response[1].usage[1].completionTokens > 0
         => response[1].billing[1].cost > 0

\* a request handled with tools, and the ceiling the two routes are to have
ToolEnabled ==
  request # Nil /\ (request[1].route = "codereview" \/ request[1].enableTools)

ConfiguredCeiling == IF request[1].route = "codereview" THEN 20 ELSE 10

StepsWithinCeiling ==
  ToolEnabled =>
    /\ steps <= ConfiguredCeiling
    /\ hpc = "finished" =>
         lastTurn.kind = "text" \/ steps = ConfiguredCeiling

\* C10: for every tool-enabled request, streaming or buffered, the model is
\* invoked at most 20 times for code review and 10 times for chat, a loop
\* that ends with a result ends on a turn without tool calls or at the
\* ceiling, and every loop that started ends.
StepLoopTerminatesWithinCeiling ==
  /\ []StepsWithinCeiling
  /\ (hpc = "invoking" ~> hpc \in {"finished", "failed"})

\* a chat with tools whose loop ended at the ceiling, on tool calls
ChatLoopExhausted ==
  /\ hpc = "finished" /\ request[1].route = "chat"
  /\ steps = 10 /\ toolExecs = 10 /\ lastTurn.kind = "tool-calls"

\* a buffered request whose loop ended on a turn of tool calls
ExhaustedBuffered ==
  hpc = "responded" /\ ~request[1].stream /\ lastTurn.kind = "tool-calls"

\* C11: in buffered mode, when the model only issues tool calls through
\* the whole step ceiling, the request completes with status 200 and a
\* non-empty explanatory text, never with an empty text or a failure.
ExhaustionIsExplained ==
  ExhaustedBuffered =>
    /\ response # Nil /\ response[1].status = 200
    /\ response[1].text # <<>>

\* a code review answered with the notice after 20 turns of tool calls
ExhaustedReviewAnswered ==
  /\ ExhaustedBuffered /\ request[1].route = "codereview" /\ steps = 20
  /\ response # Nil /\ response[1].text = ToolCallsOnlyText

\* the ledger the request found
LedgerAtArrival == IF freshProcess THEN <<>> ELSE EarlierUsage

\* rejected with status 400 and this error, no client built, no model
\* call made, the ledger as it was
Rejected(error) ==
  /\ hpc = "responded" /\ response = ErrorResponse(400, error)
  /\ client = Nil /\ steps = 0 /\ usageHistory = LedgerAtArrival

\* C12: a request whose messages are missing or not a list is rejected
\* with 400 (invalid input), one whose provider is not registered with 400
\* (invalid provider), without a client, a model call or a change of the
\* ledger, whatever the ledger and the other fields are.
InvalidRequestsRejected ==
  (request # Nil /\ hpc # "received") =>
    /\ ~request[1].messagesOk => Rejected(<<"Messages are required">>)
    /\ (request[1].messagesOk
          /\ request[1].provider \notin DOMAIN providerConfigs)
         => Rejected(<<"Invalid provider">>)

\* neither the request nor the variable of the provider yields a key
NoKeyAnywhere ==
  /\ request[1].apiKey = Nil \/ request[1].apiKey[1] = <<>>
  /\ request[1].provider \in DOMAIN envKeyMapping
       => envKeyMapping[request[1].provider] \notin request[1].env

\* the request passed the checks that precede the key resolution
PassedValidation ==
  /\ ~AtMostZero(getTotalCost(LedgerAtArrival))
  /\ request[1].messagesOk /\ request[1].convertible
  /\ HasProviderConfig(request[1].provider)

KeyIsOfRequestOrOwnVariable ==
  client # Nil =>
    /\ client[1].provider = request[1].provider
    /\ client[1].apiKey =
         IF request[1].apiKey # Nil /\ request[1].apiKey[1] # <<>>
         THEN request[1].apiKey[1]
         ELSE <<"env", envKeyMapping[request[1].provider]>>
    /\ (request[1].apiKey = Nil \/ request[1].apiKey[1] = <<>>)
         => envKeyMapping[request[1].provider] \in request[1].env

\* openai served with its own variable while that of deepseek is set too
OwnVariableAmongOthers ==
  /\ client # Nil /\ request[1].provider = "openai"
  /\ request[1].apiKey = Nil /\ request[1].env = EnvVars
  /\ client[1].apiKey = <<"env", "OPENAI_API_KEY">>

\* the model call of the request failed and the request has ended
UpstreamFailed ==
  request # Nil /\ sdk.kind = "error" /\ hpc \notin {"failed", "invoking"}

\* C15: every request ends answered or with its stream closed, and an
\* error of the model call becomes a JSON response in buffered mode or an
\* event of the stream in streaming mode: no exception leaves the route.
UpstreamErrorsAnswered ==
  /\ hpc # "threw"
  /\ UpstreamFailed =>
       /\ response # Nil
       /\ IF request[1].stream
          THEN hpc = "closed" /\ response[1].kind = "stream"
          ELSE hpc = "responded" /\ response[1].kind = "json"

\* the payload of the error carries a message with text
CarriesText(error) ==
  ErrorShape(error).payload
    \in {"value", "responseBody", "valueWithoutTextAndBody"}

\* C16: in buffered mode an error of the model call whose payload
\* (error.value or the parsed error.responseBody) carries text is answered
\* as a success with that text and a usage, and bills one record; any other
\* error is raised again and bills nothing.
SalvageWheneverTextCarried ==
  (UpstreamFailed /\ ~request[1].stream) =>
    IF CarriesText(sdk.error)
    THEN /\ hpc = "responded" /\ response # Nil
         /\ response[1].status = 200 /\ response[1].text = <<"T">>
         /\ response[1].usage # Nil
         /\ Len(usageHistory) = Len(LedgerAtArrival) + 1
    ELSE /\ usageHistory = LedgerAtArrival
         /\ hpc = "threw" \/ (response # Nil /\ response[1].status >= 500)

\* the request is over
Ended == request # Nil /\ hpc \in {"responded", "threw", "closed"}

\* the model call gave a result, or an error that was answered as a success
CompletedRequest ==
  /\ Ended
  /\ \/ sdk.kind = "result"
     \/ /\ sdk.kind = "error" /\ ~request[1].stream
        /\ ErrorShape(sdk.error).name # "AI_APICallError"
        /\ ErrorShape(sdk.error).payload \in {"value", "responseBody"}

\* the records appended since the request arrived
AppendedRecords ==
  IF Len(usageHistory) >= Len(LedgerAtArrival)
       /\ SubSeq(usageHistory, 1, Len(LedgerAtArrival)) = LedgerAtArrival
  THEN Len(usageHistory) - Len(LedgerAtArrival)
  ELSE -1

\* C17: a completed request has appended exactly one record, in buffered
\* mode before the response exists and in streaming mode after it; a
\* request that failed (credit, validation, provider, credential, upstream
\* error not salvaged) has appended none, and no request appends before
\* its model call is over.
OneRecordPerCompletedRequest ==
  request # Nil =>
    /\ AppendedRecords = IF CompletedRequest THEN 1 ELSE 0
    /\ (CompletedRequest /\ request[1].stream) =>
         response # Nil /\ response[1].kind = "stream"
    /\ (hpc = "finished" /\ ~request[1].stream) => response = Nil

\* a stream that finished was billed once, after its response was returned
StreamBilledOnFinish ==
  /\ CompletedRequest /\ request[1].stream /\ ~freshProcess
  /\ response # Nil /\ response[1].kind = "stream"
  /\ AppendedRecords = 1 /\ Len(usageHistory) = 2

(***************************************************************************)
(* Properties of the ledger.                                               *)
(***************************************************************************)

\* the rates the claim gives to a model: its own, or those of gpt-4o
RatesOf(model) ==
  IF model \in {"gpt-4o", "gemini-1.5-pro", "claude-sonnet-4-20250514",
                "deepseek-chat", "qwen-plus"}
  THEN modelCosts[model] ELSE modelCosts["gpt-4o"]

\* C18: trackUsage returns the cost inputTokens * inputRate + outputTokens
\* * outputRate at the rates of the model, or of gpt-4o when the model has
\* no entry in the table, and the record it appends stores that cost and
\* the sum of the two token counts.
CostIsTokensTimesRates ==
  ledgerCall # Nil =>
    LET call == ledgerCall[1]
        expected == call.promptTokens * RatesOf(call.model).input
                      + call.completionTokens * RatesOf(call.model).output
    IN  /\ call.returned.cost = expected
        /\ usageHistory[call.n].cost = expected
        /\ usageHistory[call.n].totalTokens
             = call.promptTokens + call.completionTokens
        /\ usageHistory[call.n].model = call.model

\* a === b for numbers
SameNumber(a, b) == a # NaN /\ b # NaN /\ a = b

\* the sum of the cost fields
RECURSIVE SumOfCosts(_)
SumOfCosts(history) ==
  IF history = <<>> THEN 0
  ELSE Plus(SumOfCosts(SubSeq(history, 2, Len(history))), history[1].cost)

\* C19: after any calls of trackUsage the total cost is the sum of the
\* recorded costs, the total returned by a call includes the cost of that
\* call, every recorded cost is at least 0 and the total never decreases
\* from one call to the next.
TotalIsSumAndGrows ==
  /\ SameNumber(getTotalCost(usageHistory), SumOfCosts(usageHistory))
  /\ \A i \in 1..Len(usageHistory) :
       usageHistory[i].cost # NaN /\ usageHistory[i].cost >= 0
  /\ ledgerCall # Nil =>
       LET call == ledgerCall[1]
       IN  /\ SameNumber(call.returned.totalCost,
                         Plus(call.totalBefore, call.returned.cost))
           /\ call.totalBefore # NaN /\ call.returned.totalCost # NaN
           /\ call.returned.totalCost >= call.totalBefore

\* C20: the ledger only grows at its end: a call of trackUsage adds one
\* record after the others, the history is read in the order of the calls,
\* and no other step, the billing endpoint and the credit check included,
\* removes, moves or changes a record.
LedgerIsAppendOnly ==
  [][/\ IF ledgerCall' # ledgerCall
        THEN /\ Len(usageHistory') = Len(usageHistory) + 1
             /\ SubSeq(usageHistory', 1, Len(usageHistory)) = usageHistory
             /\ Last(usageHistory').model = ledgerCall'[1].model
             /\ Last(usageHistory').promptTokens = ledgerCall'[1].promptTokens
             /\ Last(usageHistory').completionTokens
                  = ledgerCall'[1].completionTokens
        ELSE usageHistory' = usageHistory
      /\ (ledgerRead' # Nil /\ ledgerRead'[1].of = "billing")
           => ledgerRead'[1].usageHistory = usageHistory']_vars

\* the billing endpoint has shown two different records in the order of
\* their calls, and a third was appended since
ReadInOrderThenAppended ==
  /\ ledgerRead # Nil /\ ledgerRead[1].of = "billing"
  /\ Len(ledgerRead[1].usageHistory) = 2
  /\ ledgerRead[1].usageHistory[1].model = "my-model"
  /\ ledgerRead[1].usageHistory[2].model = "deepseek-chat"
  /\ Len(usageHistory) = 3
  /\ SubSeq(usageHistory, 1, 2) = ledgerRead[1].usageHistory
  /\ ledgerCall # Nil /\ ledgerCall[1].n = 3

(***************************************************************************)
(* Further properties of the stream relay/parser.                          *)
(***************************************************************************)

\* C26: when a stream ends normally, onComplete is invoked only after the
\* output has been closed: it is never invoked while the output controller
\* is still open.
CompletionOnlyAfterClose ==
  onCompleteCalls # <<>> => outState # "readable"

\* the whole stream has been fed and its end is an unterminated line
AtUnterminatedEnd ==
  /\ pc = "feed" /\ pos = Len(stream) /\ stream # <<>>
  /\ Last(stream) # NL

\* what the parser ends with had a newline followed the last line
WithFinalNewline ==
  LET r == DecodeAndProcess(carry, buffer, result, <<NL>>)
  IN  processRemainingBuffer(r.buffer, r.result)

\* C27: at the end of the stream what is left in the buffer is processed
\* by the logic of complete lines: an unterminated final line has the same
\* effect on {text, usage} as the same line followed by a newline.
RemainderProcessedAsLine ==
  AtUnterminatedEnd =>
    processRemainingBuffer(buffer, result) = WithFinalNewline

(***************************************************************************)
(* Further properties of handleAIRequest.                                  *)
(***************************************************************************)

\* a buffered request whose loop was ended by the ceiling after some turn
\* had carried text
ExhaustedAfterText ==
  /\ hpc = "responded" /\ ~request[1].stream
  /\ sdk.kind = "result" /\ sdk.finishReason = "tool-calls"
  /\ script[1].says # "nothing"

\* C28: when the loop ends by exhaustion and a step of it produced text,
\* the buffered response returns that text together with a caveat: the
\* text of an earlier step is not replaced by the notice because the last
\* step held only tool calls.
ExhaustionKeepsTextWithCaveat ==
  ExhaustedAfterText =>
    /\ response # Nil /\ response[1].status = 200
    /\ \E i \in 1..Len(response[1].text) : response[1].text[i] = "S"
    /\ \E i \in 1..Len(response[1].text) : response[1].text[i] # "S"

\* the last comment POST failed
CommentFailed == posted # <<>> /\ Last(posted).kind # "ok"

\* C22: a comment POST that fails, by its status or in transport, does not
\* change the outcome of the review: the buffered response is still the
\* successful {text, usage, billing}, and the stream already delivered is
\* neither errored nor altered.
CommentFailureIsHarmless ==
  CommentFailed =>
    /\ response # Nil /\ response[1].status = 200 /\ response[1].error = <<>>
    /\ IF request[1].stream
       THEN hpc = "closed" /\ response[1].kind = "stream"
       ELSE /\ hpc = "responded" /\ response[1].kind = "json"
            /\ response[1].text # <<>>
            /\ response[1].usage # Nil /\ response[1].billing # Nil

\* a buffered review was answered although GitHub could not be reached
ReviewAnsweredWithoutComment ==
  /\ Len(posted) = 1 /\ posted[1].kind = "transport" /\ ~request[1].stream
  /\ hpc = "responded" /\ response # Nil /\ response[1].status = 200
  /\ response[1].text = <<"T">>

\* the call of extractPRInfo has returned
Extracted == invoked.op = "extractPRInfo" /\ settled # Nil

\* the texts of a sequence of text parts, one after the other
RECURSIVE Concatenated(_)
Concatenated(texts) ==
  IF texts = <<>> THEN <<>> ELSE Head(texts).text \o Concatenated(Tail(texts))

\* the text of a message: its string content, or its text parts in their
\* order and nothing of its other parts
TextOfMessage(m) ==
  IF m.parts # Nil
  THEN Concatenated(SelectSeq(m.parts[1], LAMBDA p : p.type = "text"))
  ELSE IF m.content = Nil THEN <<>>
  ELSE IF m.content[1].type = "string" THEN m.content[1].text
  ELSE Concatenated(SelectSeq(m.content[1].items, LAMBDA p : p.type = "text"))

\* the indices of the messages whose text holds a pull request reference
Referring(messages) ==
  {i \in 1..Len(messages) : PRMatch(TextOfMessage(messages[i])) # Nil}

\* C23: extractPRInfo returns the pull request of an explicit prUrl whatever
\* the messages hold; without a prUrl it returns the match of the first
\* message, in their order, whose text (its text parts concatenated in
\* order, other parts ignored) has one; and null when nothing matches, also
\* for an empty list and for messages without content.
ExplicitUrlThenFirstMessage ==
  Extracted =>
    LET given == invoked.prUrl # Nil /\ invoked.prUrl[1] # <<>>
        messages == IF invoked.messages = Nil THEN <<>> ELSE invoked.messages[1]
        first == CHOOSE i \in Referring(messages) :
                   \A k \in Referring(messages) : i <= k
    IN  /\ (given /\ PRMatch(invoked.prUrl[1]) # Nil)
             => settled[1] = PRMatch(invoked.prUrl[1])
        /\ (~given /\ Referring(messages) # {})
             => settled[1] = PRMatch(TextOfMessage(messages[first]))
        /\ ((~given \/ PRMatch(invoked.prUrl[1]) = Nil)
              /\ Referring(messages) = {})
             => settled[1] = Nil

\* an explicit URL won over messages that refer to another pull request
ExplicitUrlWon ==
  /\ Extracted /\ invoked.prUrl # Nil /\ invoked.messages # Nil
  /\ settled[1] # Nil /\ settled[1][1].owner = <<"q">>
  /\ Referring(invoked.messages[1]) # {}

\* the URLs whose text is the URL extractPRInfo was called with
CalledWith == {u \in URLParts : invoked.prUrl = Some(UrlText(u))}

\* the URL addresses a pull request on the GitHub host
AddressesPullRequest(u) ==
  /\ u.before = <<>> /\ Lower(u.host) = "github.com"
  /\ Lower(u.kind) = "pull" /\ u.number # <<>>

\* C24: extractPRInfo accepts a URL only when it addresses a pull request on
\* the GitHub host: host and path are matched without regard to case, a
\* trailing ?query or #fragment does not change the {owner, repo, prNumber}
\* extracted, and a URL on another host or without a pull number gives null.
OnlyGitHubPullRequests ==
  (Extracted /\ invoked.messages = Nil) =>
    \A u \in CalledWith :
      IF AddressesPullRequest(u)
      THEN settled[1] = Some([owner |-> <<u.owner>>, repo |-> <<u.repo>>,
                              prNumber |-> u.number])
      ELSE settled[1] = Nil

\* a tool was called and its promise has settled
ToolSettled == invoked.op \in {"readFile", "readPullRequest"} /\ settled # Nil

\* C21: the tools readFile and readPullRequest never throw or reject: a
\* missing or unreadable file, a URL that does not match, a network error, a
\* status that is not a success, a body that cannot be read or is no array
\* all resolve to a string, and the string of a failed readFile begins with
\* 'Error reading file:'.
ToolsAlwaysResolveToText ==
  ToolSettled =>
    /\ settled[1].kind = "fulfilled"
    /\ (invoked.op = "readFile" /\ invoked.fs.kind = "throws")
         => /\ settled[1].value # <<>>
            /\ settled[1].value[1] = "Error reading file:"
    /\ (invoked.op = "readPullRequest"
          /\ (\/ PRMatch(invoked.prUrl) = Nil
              \/ invoked.net.kind = "rejects"
              \/ invoked.net.status # "200"
              \/ invoked.net.body # "files"))
         => /\ settled[1].value # <<>>
            /\ settled[1].value[1] # "{"

\* the body of the response was no JSON and the tool answered with a text
UnreadableBodyAnswered ==
  /\ ToolSettled /\ invoked.op = "readPullRequest"
  /\ PRMatch(invoked.prUrl) # Nil /\ invoked.net.kind = "responds"
  /\ invoked.net.status = "200" /\ invoked.net.body = "unreadable"
  /\ settled[1].kind = "fulfilled"
  /\ settled[1].value = <<"Error reading pull request:", "Unexpected token">>

\* the normalization has returned the list for the model call
Normalized == invoked.op = "normalize" /\ settled # Nil

\* the raw message has the shape of its mode, a text that is not blank and
\* no tool part
TextBearing(m, streaming) ==
  /\ streaming <=> m.parts # Nil
  /\ \E i \in 1..Len(TextOfMessage(m)) : TextOfMessage(m)[i] # " "
  /\ m.parts # Nil => \A i \in 1..Len(m.parts[1]) : m.parts[1][i].type = "text"

Canonical ==
  convertToModelMessages(normalizedMessages(invoked.rawMessages,
                                            invoked.stream))

ToolOnly(m) ==
  /\ m.content # <<>>
  /\ \A i \in 1..Len(m.content) :
       m.content[i].type \in {"tool-call", "tool-result"}

\* C29: for every provider a canonical message that carries only tool-call
\* or tool-result parts and no text is sent upstream, never removed by the
\* filter of empty messages.
ToolMessagesSentUpstream ==
  Normalized =>
    \A i \in 1..Len(Canonical) :
      ToolOnly(Canonical[i])
        => \E j \in 1..Len(settled[1]) : settled[1][j] = Canonical[i]

\* the message carries no text and no tool call or tool result
CarriesNothing(m) ==
  /\ Concatenated(SelectSeq(m.content, LAMBDA p : p.type = "text")) = <<>>
  /\ \A i \in 1..Len(m.content) :
       m.content[i].type \notin {"tool-call", "tool-result"}

\* C30: a message that carries neither content nor a tool call or tool
\* result is never sent upstream, for every provider and in both modes, and
\* the other messages keep their relative order.
EmptyMessagesNeverSent ==
  Normalized =>
    settled[1] = SelectSeq(Canonical, LAMBDA m : ~CarriesNothing(m))

\* a well-formed request with a registered provider and a key, handled by
\* a process that has recorded nothing yet
WellFormedOnFreshProcess ==
  /\ request # Nil /\ hpc # "received" /\ freshProcess
  /\ request[1].messagesOk /\ request[1].convertible
  /\ request[1].provider \in DOMAIN providerConfigs
  /\ HasResolvedApiKey(request[1])

\* C38: the credit check never blocks a fresh process: with an empty
\* ledger a well-formed request with a registered provider and a key that
\* resolves is not answered 402 'Insufficient credits' and reaches the
\* model invocation.
FreshProcessIsServed ==
  WellFormedOnFreshProcess =>
    /\ response # ErrorResponse(402, <<"Insufficient credits">>)
    /\ client # Nil

\* the records of model m, and the sum of one of their fields
RecordsOf(history, m) == SelectSeq(history, LAMBDA r : r.model = m)

RECURSIVE FieldTotal(_, _)
FieldTotal(records, field) ==
  IF records = <<>> THEN 0
  ELSE Plus(records[1][field], FieldTotal(Tail(records), field))

\* the sum of a field of the breakdown over the models in ms
RECURSIVE BreakdownTotal(_, _, _)
BreakdownTotal(breakdown, ms, field) ==
  IF ms = {} THEN 0
  ELSE LET m == CHOOSE x \in ms : TRUE
       IN  Plus(breakdown[m][field],
                BreakdownTotal(breakdown, ms \ {m}, field))

\* C37: in every reachable state getCostByModel agrees with the ledger:
\* the cost, tokens and calls of a model are the sum of cost, the sum of
\* totalTokens and the number of its records, a model without records is
\* absent, the costs sum to getTotalCost() and the calls to the length of
\* the history.
BreakdownAgreesWithLedger ==
  LET breakdown == getCostByModel(usageHistory)
      recorded == {usageHistory[i].model : i \in 1..Len(usageHistory)}
  IN  /\ DOMAIN breakdown = recorded
      /\ \A m \in DOMAIN breakdown :
           /\ SameNumber(breakdown[m].cost,
                         FieldTotal(RecordsOf(usageHistory, m), "cost"))
           /\ breakdown[m].tokens
                = FieldTotal(RecordsOf(usageHistory, m), "totalTokens")
           /\ breakdown[m].calls = Len(RecordsOf(usageHistory, m))
      /\ SameNumber(BreakdownTotal(breakdown, DOMAIN breakdown, "cost"),
                    getTotalCost(usageHistory))
      /\ BreakdownTotal(breakdown, DOMAIN breakdown, "calls")
           = Len(usageHistory)

\* readPullRequest was called and has settled
PullRequestRead == invoked.op = "readPullRequest" /\ settled # Nil

\* C35: readPullRequest returns the text of the format error without sending
\* a request when prUrl does not match the pattern; for a status that is not
\* a success it returns an error text that is 'PR not found' for 404 and
\* another text for every other status; a response that is not a non-empty
\* array gives the text 'No files found'.
PullRequestErrorsAreTexts ==
  PullRequestRead =>
    LET matched == PRMatch(invoked.prUrl) # Nil
        net == invoked.net
        text == settled[1].value
    IN  /\ settled[1].kind = "fulfilled"
        /\ ~matched
             => /\ text = <<"Error: Invalid GitHub PR URL format">>
                /\ settled[1].requests = <<>>
        /\ matched => Len(settled[1].requests) = 1
        /\ (matched /\ net.kind = "responds" /\ net.status # "200")
             => /\ net.status = "404" <=> text = <<"Error: PR not found">>
                /\ net.status # "404"
                     => text = <<"Error fetching PR files:", net.status>>
        /\ (matched /\ net.kind = "responds" /\ net.status = "200"
              /\ net.body \in {"object", "empty"})
             => text = <<"No files found in this pull request.">>

\* a URL of another site was answered with the format error and no request
FormatErrorWithoutRequest ==
  /\ PullRequestRead /\ invoked.net.kind = "responds"
  /\ invoked.prUrl = <<"https://", "gitlab.com", "/", "o", "/", "r", "/",
                       "pull", "/", "1">>
  /\ settled[1].value = <<"Error: Invalid GitHub PR URL format">>
  /\ settled[1].requests = <<>>

\* C33: postPRComment sends exactly one POST per call and never retries; a
\* response that is not a success makes it fail with an error that carries
\* the status and the text of the response; and a whole review request
\* sends at most one comment POST.
OneCommentPostPerReview ==
  /\ Len(posted) <= 1
  /\ \A i \in 1..Len(posted) :
       /\ posted[i].posts = 1
       /\ posted[i].kind = "status"
            => \E answer \in GitHubAnswers :
                 /\ answer.kind = "responds" /\ answer.status # "201"
                 /\ posted[i].error
                      = <<"Failed to post PR comment:", answer.status>>
                          \o answer.text

\* the comment of a buffered review was refused for its credentials
CommentRefused ==
  /\ hpc = "responded" /\ ~request[1].stream /\ Len(posted) = 1
  /\ posted[1].error = <<"Failed to post PR comment:", "401", "Bad credentials">>

\* the comment POST has been started
CommentStarted == invoked.op = "postPRComment"

\* C32: in streaming mode with a GitHub token and a pull request the
\* comment POST is started only after the upstream has ended and every
\* chunk has been forwarded, at most once and only with a collected text
\* that is not empty, and the output is closed without waiting for the
\* POST to finish.
CommentStartsAfterStreamEnd ==
  CommentStarted =>
    /\ upstream = "open" /\ pos = Len(stream) /\ pc = "returned"
    /\ output.bytes = stream
    /\ invoked.posts = 1
    /\ invoked.text # <<>> /\ invoked.text = result.text
    /\ outState = "closed"

\* the output is closed while the POST of the comment is still under way
ClosedWhileCommentPending ==
  /\ CommentStarted /\ settled = Nil /\ outState = "closed"
  /\ cancelledAt = Nil /\ output.chunks = 2

\* a buffered code review whose model run has ended with a result
BufferedReviewSucceeded ==
  /\ hpc = "responded" /\ request[1].route = "codereview"
  /\ ~request[1].stream /\ sdk.kind = "result"

\* C40: the status and the body of a buffered code review response do not
\* depend on a GitHub token and a pull request being present: a run that
\* ends with a result is answered 200 with its text, empty or not, with
\* and without them.
BufferedReviewIgnoresGitHub ==
  BufferedReviewSucceeded =>
    /\ response[1].status = 200
    /\ response[1].text = FinalText(sdk)

\* the comment route has answered a request whose POST to GitHub failed
CommentPostFailed ==
  /\ invoked.op = "POST /github/pr-comment" /\ settled # Nil
  /\ posted # <<>> /\ Last(posted).kind # "ok"

\* C31: an upstream failure is answered 502 with the upstream error text,
\* never 500 and never a success: the comment route whose POST to GitHub
\* fails answers 502 with the error of the POST.
UpstreamFailureIs502 ==
  CommentPostFailed =>
    /\ settled[1].status = 502
    /\ settled[1].error = Last(posted).error

\* two runs with a secret each have written their log lines
BothSecretsLogged ==
  /\ invoked.op = "log" /\ settled # Nil
  /\ invoked.first # Nil /\ invoked.second # Nil

\* C36: the log output depends on a secret by its presence only: two runs
\* that differ in the characters of the API key or of the GitHub token,
\* present in both, write the same log lines, on the server and in the
\* client hook.
LogsShowPresenceOnly ==
  BothSecretsLogged => settled[1].first = settled[1].second

CompletionsAndReadsAreAtomic ==
  invoked.op = "requests" =>
    /\ Len(usageHistory) = Cardinality(invoked.completed)
    /\ \A id \in invoked.completed :
         \E i \in 1..Len(usageHistory) :
           /\ usageHistory[i] = deductCredits(SubSeq(usageHistory, 1, i - 1),
                                              invoked.inflight[id].model,
                                              id, 1).history[i]
           /\ \A j \in 1..Len(usageHistory) :
                usageHistory[j].promptTokens = id => j = i
    /\ (ledgerRead # Nil /\ ledgerRead[1].of = "billing") =>
         LET read == ledgerRead[1].usageHistory
         IN  /\ Len(read) <= Len(usageHistory)
             /\ read = SubSeq(usageHistory, 1, Len(read))
             /\ ledgerRead[1].totalCost = getTotalCost(read)
             /\ ledgerRead[1].costByModel = getCostByModel(read)

\* a read between the completions of a stream and of a buffered request,
\* the later-numbered request having completed first
ReadBetweenCompletions ==
  /\ invoked.op = "requests" /\ invoked.completed = InFlightIds
  /\ ledgerRead # Nil /\ ledgerRead[1].of = "billing"
  /\ Len(ledgerRead[1].usageHistory) = 2
  /\ usageHistory[1].promptTokens = 3 /\ usageHistory[2].promptTokens = 1
  /\ invoked.inflight[3].mode = "stream"
  /\ invoked.inflight[1].mode = "buffered"
  /\ ledgerRead[1].totalCost > 0

====
